---- MODULE Spec2Model ----
(***************************************************************************)
(* Gateway transport of serenity (src/gateway/ws.rs, src/gateway/error.rs): *)
(* the Compression codec (Payload / Zlib / Zstd), WsClient::recv_json and   *)
(* the send operations, as a state machine.                                 *)
(*                                                                          *)
(* Data conventions.  A compressed byte is a number 0..255.  Decompressed   *)
(* data is a sequence of runs [sym, n]: n copies of the byte sym, so that   *)
(* the real 64 KiB scratch capacity can be kept.  The decoders of flate2    *)
(* and zstd are modelled by a small token code:                             *)
(*    0x00, 0xFF   bytes of an empty stored block: decode to nothing        *)
(*    1            decodes to one byte 1                                    *)
(*    2            decodes to BigRun bytes 2 (a long back-reference chain)  *)
(*    4            end of the zlib stream / end of the zstd frame           *)
(*    other        an invalid code: the decoder reports an error            *)
(***************************************************************************)
EXTENDS Integers, Sequences, FiniteSets, TLC

\* ---------------------------------------------------------------- bounds
\* longest payload (in compressed bytes) of one server message
MaxPayload == 2
\* number of binary messages the server sends on one connection
MaxMessages == 2
\* decompressed length of token 2
BigRun == 40000

\* ------------------------------------------------------------- helpers
Min(a, b) == IF a < b THEN a ELSE b

Take(s, n) == SubSeq(s, 1, n)

Drop(s, n) == SubSeq(s, n + 1, Len(s))

BSeq(S, n) == UNION {[1..k -> S] : k \in 0..n}

Run(sym, n) == IF n = 0 THEN <<>> ELSE <<[sym |-> sym, n |-> n]>>

RECURSIVE BytesLen(_)
\* number of bytes a sequence of runs stands for
BytesLen(runs) ==
    IF runs = <<>> THEN 0 ELSE Head(runs).n + BytesLen(Tail(runs))

RECURSIVE TakeBytes(_, _)
\* runs[..k]
TakeBytes(runs, k) ==
    IF k = 0 \/ runs = <<>> THEN <<>>
    ELSE IF Head(runs).n <= k
         THEN <<Head(runs)>> \o TakeBytes(Tail(runs), k - Head(runs).n)
         ELSE Run(Head(runs).sym, k)

RECURSIVE DropBytes(_, _)
\* runs[k..]
DropBytes(runs, k) ==
    IF k = 0 \/ runs = <<>> THEN runs
    ELSE IF Head(runs).n <= k
         THEN DropBytes(Tail(runs), k - Head(runs).n)
         ELSE Run(Head(runs).sym, Head(runs).n - k) \o Tail(runs)

RECURSIVE Canon(_)
\* the same bytes with adjacent runs of one symbol merged
Canon(runs) ==
    IF Len(runs) < 2 THEN runs
    ELSE IF runs[1].sym = runs[2].sym
         THEN Canon(Run(runs[1].sym, runs[1].n + runs[2].n) \o Drop(runs, 2))
         ELSE <<runs[1]>> \o Canon(Tail(runs))

\* a write of `new` at the start of the fixed buffer `old`
Overwrite(old, new) == Canon(new \o DropBytes(old, BytesLen(new)))

\* ------------------------------------------------- the token code (decoders)
RunLen(t) == IF t = 1 THEN 1 ELSE IF t = 2 THEN BigRun ELSE 0

\* ------------------------------------------------------ flate2 (zlib format)
\* flate2::Decompress::new(true): the persistent inflate context.  pend is the
\* output of a decoded code that did not fit in the caller's buffer yet.
ZlibInflaterNew ==
    [total_out |-> 0, pend |-> <<>>, failed |-> FALSE, finished |-> FALSE]

RECURSIVE ZlibRun(_, _, _, _, _)
\* inflate(): decode input[i+1..] into a buffer with `room` free bytes
ZlibRun(st, input, i, room, out) ==
    IF st.failed THEN [st |-> st, consumed |-> i, out |-> out, err |-> TRUE]
    ELSE IF st.pend # <<>> THEN
        LET n == st.pend[1].n
            sym == st.pend[1].sym
            w == Min(n, room)
        IN  IF w < n
            THEN [st |-> [st EXCEPT !.pend = Run(sym, n - w)], consumed |-> i,
                  out |-> out \o Run(sym, w), err |-> FALSE]
            ELSE ZlibRun([st EXCEPT !.pend = <<>>], input, i, room - w,
                         out \o Run(sym, w))
    ELSE IF st.finished \/ i = Len(input)
        THEN [st |-> st, consumed |-> i, out |-> out, err |-> FALSE]
    ELSE LET t == input[i + 1] IN
        IF t = 4
        THEN ZlibRun([st EXCEPT !.finished = TRUE], input, i + 1, room, out)
        ELSE IF t \in {0, 255, 1, 2}
        THEN ZlibRun([st EXCEPT !.pend = Run(t, RunLen(t))], input, i + 1,
                     room, out)
        ELSE [st |-> [st EXCEPT !.failed = TRUE], consumed |-> i, out |-> out,
              err |-> TRUE]

\* Decompress::decompress(input, output, FlushDecompress::Sync) on an output
\* slice of `cap` bytes; total_out grows by what was written
ZlibDecompress(inflater, input, cap) ==
    LET Status(r) ==
            [inflater |-> [r.st EXCEPT !.total_out = @ + BytesLen(r.out)],
             consumed |-> r.consumed, out |-> r.out, err |-> r.err]
    IN  Status(ZlibRun(inflater, input, 0, cap, <<>>))

\* ZlibDecoder::new(slice).read_to_end(vec): a fresh context, a growing
\* vector; an input that ends before the end of the stream is an error
ZlibReadToEnd(slice) ==
    LET Read(r) == [out |-> Canon(r.out), err |-> r.err \/ ~r.st.finished]
    IN  Read(ZlibRun(ZlibInflaterNew, slice, 0, Len(slice) * (BigRun + 1), <<>>))

\* ---------------------------------------------------------------- zstd
\* zstd_safe::DStream after init(): pend is decoded output not flushed yet,
\* failed the error code of a failed decode, or 0
ZstdInflaterNew == [pend |-> <<>>, failed |-> 0]

\* ZSTD_ErrorCode: corruption_detected = 20, prefix_unknown = 10
ZstdErrorCode(t) == IF t = 3 THEN 20 ELSE 10

RECURSIVE ZstdWork(_, _, _, _, _)
\* the work loop of ZSTD_decompressStream: flush, then read, until the output
\* is full, the input is used up or the frame ends
ZstdWork(st, input, i, room, out) ==
    IF st.pend # <<>> THEN
        LET n == st.pend[1].n
            sym == st.pend[1].sym
            w == Min(n, room)
        IN  IF w < n
            THEN [st |-> [st EXCEPT !.pend = Run(sym, n - w)], pos |-> i,
                  out |-> out \o Run(sym, w), frameEnded |-> FALSE]
            ELSE ZstdWork([st EXCEPT !.pend = <<>>], input, i, room - w,
                          out \o Run(sym, w))
    ELSE IF i = Len(input)
        THEN [st |-> st, pos |-> i, out |-> out, frameEnded |-> FALSE]
    ELSE LET t == input[i + 1] IN
        IF t = 4
        THEN [st |-> st, pos |-> i + 1, out |-> out, frameEnded |-> TRUE]
        ELSE IF t \in {1, 2}
        THEN ZstdWork([st EXCEPT !.pend = Run(t, RunLen(t))], input, i + 1,
                      room, out)
        ELSE [st |-> [st EXCEPT !.failed = ZstdErrorCode(t)], pos |-> i,
              out |-> out, frameEnded |-> FALSE]

\* DStream::decompress_stream(&mut out_buffer, &mut in_buffer): Ok(hint) with
\* hint 0 when a frame is completely decoded and flushed, or Err(code)
decompress_stream(st, input, in_pos, room) ==
    IF st.failed # 0
    THEN [st |-> st, pos |-> in_pos, out |-> <<>>, ok |-> FALSE, val |-> st.failed]
    ELSE
    LET Status(r) ==
            [st |-> r.st, pos |-> r.pos, out |-> r.out, ok |-> r.st.failed = 0,
             val |-> IF r.st.failed # 0 THEN r.st.failed
                     ELSE IF r.frameEnded THEN 0 ELSE 1]
    IN  Status(ZstdWork(st, input, in_pos, room, <<>>))

\* ---------------------------------------------------------------- codec
DECOMPRESSED_CAPACITY == 64 * 1024

ZLIB_SUFFIX == <<0, 0, 255, 255>>

\* vec![0; DECOMPRESSED_CAPACITY].into_boxed_slice()
ZeroedScratch == Run(0, DECOMPRESSED_CAPACITY)

\* a conversion that builds the Zlib codec for the Zstd transport
CompressionFromZstdAsZlib(value) ==
    CASE value = "None" -> [variant |-> "Payload", decompressed |-> <<>>]
      [] OTHER -> [variant |-> "Zlib", inflater |-> ZlibInflaterNew,
                   compressed |-> <<>>, decompressed |-> ZeroedScratch]

\* From<TransportCompression> for Compression
CompressionFrom(value) ==
    CASE value = "None" -> [variant |-> "Payload", decompressed |-> <<>>]
      [] value = "Zlib" -> [variant |-> "Zlib", inflater |-> ZlibInflaterNew,
                            compressed |-> <<>>, decompressed |-> ZeroedScratch]
      [] value = "Zstd" -> [variant |-> "Zstd", inflater |-> ZstdInflaterNew,
                            decompressed |-> ZeroedScratch]

\* results of inflate: Ok(None), Ok(Some(out)), Err(kind, code) or a panic
OkNone == [tag |-> "None", out |-> <<>>, err |-> "", code |-> 0]

OkSome(out) == [tag |-> "Some", out |-> out, err |-> "", code |-> 0]

\* an error that does not keep the code it was made with
FailureWithoutCode(kind, code) == [tag |-> "Err", out |-> <<>>, err |-> kind, code |-> 0]

Failure(kind, code) == [tag |-> "Err", out |-> <<>>, err |-> kind, code |-> code]

Panic == [tag |-> "Panic", out |-> <<>>, err |-> "", code |-> 0]

\* a Payload arm that does not clear the vector before it reads into it
inflatePayloadAppends(self, slice) ==
    LET Read(r) ==
            [self |-> [self EXCEPT !.decompressed = Canon(@ \o r.out)], steps |-> <<>>,
             res |-> IF r.err THEN Failure("Io", 0)
                     ELSE OkSome(Canon(self.decompressed \o r.out))]
    IN  Read(ZlibReadToEnd(slice))

\* Compression::inflate, Payload arm
inflatePayload(self, slice) ==
    LET Read(r) ==
            [self |-> [self EXCEPT !.decompressed = r.out], steps |-> <<>>,
             res |-> IF r.err THEN Failure("Io", 0) ELSE OkSome(r.out)]
    IN  Read(ZlibReadToEnd(slice))

\* &buf[from..]: oob is the index-out-of-range panic
SliceFrom(buf, from) ==
    IF from < 0 \/ from > Len(buf)
    THEN [oob |-> TRUE, val |-> <<>>]
    ELSE [oob |-> FALSE, val |-> Drop(buf, from)]

\* &decompressed[..produced] of the scratch buffer, with the same panic
SliceTo(scratch, produced) ==
    IF produced < 0 \/ produced > BytesLen(scratch)
    THEN Panic
    ELSE OkSome(TakeBytes(scratch, produced))

\* a completeness test without its length guard
TooShortUnguarded(length) == FALSE

\* the first operand of the completeness test: length < 4
TooShort(length) == length < 4

\* a Zlib arm that empties the accumulation buffer after every decode
AfterDecodeClears(compressed, failed) == <<>>

\* what the Zlib arm does with the accumulation buffer after a decode
AfterDecode(compressed, failed) == IF failed THEN compressed ELSE <<>>

\* Compression::inflate, Zlib arm
inflateZlib(self, slice) ==
    LET Decode(compressed, pre_out, d) ==
            LET Written(written, produced) ==
                    [self |-> [self EXCEPT !.inflater = d.inflater,
                                           !.compressed = AfterDecode(compressed, d.err),
                                           !.decompressed = written],
                     steps |-> <<>>,
                     res |-> IF d.err THEN Failure("DecompressZlib", 0)
                             ELSE SliceTo(written, produced)]
            IN  Written(Overwrite(self.decompressed, d.out),
                        d.inflater.total_out - pre_out)
        Extended(compressed, length) ==
            LET Pending == [self |-> [self EXCEPT !.compressed = compressed],
                            steps |-> <<>>, res |-> OkNone]
                Ending(tail) ==
                    IF tail.oob
                    THEN [self |-> [self EXCEPT !.compressed = compressed],
                          steps |-> <<>>, res |-> Panic]
                    ELSE IF tail.val # ZLIB_SUFFIX
                    THEN Pending
                    ELSE Decode(compressed, self.inflater.total_out,
                                ZlibDecompress(self.inflater, compressed,
                                               DECOMPRESSED_CAPACITY))
            IN  IF TooShort(length)
                THEN Pending
                ELSE Ending(SliceFrom(compressed, length - 4))
    IN  Extended(self.compressed \o slice, Len(self.compressed \o slice))

\* a loop that takes every step that did not advance for corruption
StallAlwaysCorrupted(read_all_input) == "corrupted"

\* a loop that leaves by break whenever a step did not advance
StallAlwaysBreaks(read_all_input) == "break"

\* the loop's choice when a step did not advance the input position
StallOutcome(read_all_input) == IF read_all_input THEN "break" ELSE "corrupted"

\* a Zstd arm that reports "no message yet" once the loop is left by break
AfterBreakNone(written) == OkNone

\* what the Zstd arm returns once the loop is left by break
AfterBreak(written) == OkSome(written)

RECURSIVE ZstdLoop(_, _, _, _, _, _)
\* the loop of the Zstd arm; out is what out_buffer holds so far, steps the
\* record of the decode steps made: position before and after, and the result
ZstdLoop(inflater, slice, in_pos, out, processed, steps) ==
    LET Step(r) ==
            LET Leave(res) ==
                    [inflater |-> r.st, out |-> out \o r.out,
                     steps |-> Append(steps, [before |-> in_pos, after |-> r.pos,
                                              ok |-> r.ok, val |-> r.val]),
                     res |-> res]
                progressed == r.pos > processed
                read_all_input == r.pos = Len(slice)
            IN  IF ~r.ok
                THEN Leave(Failure("DecompressZstd", r.val))
                ELSE IF r.val = 0
                THEN Leave(AfterBreak(out \o r.out))
                ELSE IF progressed
                THEN ZstdLoop(r.st, slice, r.pos, out \o r.out, r.pos,
                              Append(steps, [before |-> in_pos, after |-> r.pos,
                                             ok |-> r.ok, val |-> r.val]))
                ELSE IF StallOutcome(read_all_input) = "break"
                THEN Leave(AfterBreak(out \o r.out))
                ELSE Leave(Failure("DecompressZstdCorrupted", 0))
    IN  Step(decompress_stream(inflater, slice, in_pos,
                               DECOMPRESSED_CAPACITY - BytesLen(out)))

\* Compression::inflate, Zstd arm
inflateZstd(self, slice) ==
    LET Left(l) ==
            LET Written(written) ==
                    [self |-> [self EXCEPT !.inflater = l.inflater,
                                           !.decompressed = written],
                     steps |-> l.steps,
                     res |-> IF l.res.tag = "Some"
                             THEN SliceTo(written, BytesLen(l.out))
                             ELSE l.res]
            IN  Written(Overwrite(self.decompressed, l.out))
    IN  Left(ZstdLoop(self.inflater, slice, 0, <<>>, 0, <<>>))

\* Compression::inflate
inflate(self, slice) ==
    CASE self.variant = "Payload" -> inflatePayload(self, slice)
      [] self.variant = "Zlib" -> inflateZlib(self, slice)
      [] self.variant = "Zstd" -> inflateZstd(self, slice)

\* ----------------------------------------------------------------- JSON
\* serde_json::from_slice::<GatewayEvent>: a text whose first byte is 1 is a
\* Dispatch event, one whose first byte is 2 a HeartbeatAck; any other text,
\* the empty one included, is a syntax error
from_slice(text) ==
    IF text # <<>> /\ \A i \in 1..Len(text) : text[i].sym \in {1, 2}
    THEN [ok |-> TRUE, kind |-> IF text[1].sym = 1 THEN "Dispatch" ELSE "HeartbeatAck"]
    ELSE [ok |-> FALSE, kind |-> ""]

\* FixedString::from_string_trunc: the text, cut to the capacity of the
\* length type (u32::MAX; the largest integer TLC handles stands for it)
from_string_trunc(text) == TakeBytes(text, 2147483647)

\* -------------------------------------------------------- frames, results
Frame(kind, bytes, text, fin, msg) ==
    [kind |-> kind, bytes |-> bytes, text |-> text, fin |-> fin, msg |-> msg]

NoFrame == Frame("none", <<>>, <<>>, FALSE, <<>>)

NotRun == [tag |-> "NotRun", out |-> <<>>, err |-> "", code |-> 0]

NoValue == [op |-> "", d |-> <<>>]

\* the return value of an operation
Event(kind, original_str) ==
    [tag |-> "Event", kind |-> kind, original_str |-> original_str, err |-> ""]

NoEvent == [tag |-> "NoEvent", kind |-> "", original_str |-> <<>>, err |-> ""]

Err(kind) == [tag |-> "Err", kind |-> "", original_str |-> <<>>, err |-> kind]

Unit == [tag |-> "Ok", kind |-> "", original_str |-> <<>>, err |-> ""]

Panicked == [tag |-> "Panic", kind |-> "", original_str |-> <<>>, err |-> ""]

\* String::from_utf8_lossy: every byte that is not valid UTF-8 becomes U+FFFD
from_utf8_lossy(text) ==
    [i \in 1..Len(text) |->
        IF text[i].sym >= 128 THEN [sym |-> 65533, n |-> text[i].n] ELSE text[i]]

\* a parse step that drops a text it cannot parse instead of failing
ParseEventSwallows(json_bytes) ==
    LET parsed == from_slice(json_bytes) IN
    IF parsed.ok
    THEN Event(parsed.kind,
               IF parsed.kind = "Dispatch"
               THEN from_string_trunc(Canon(from_utf8_lossy(json_bytes)))
               ELSE <<>>)
    ELSE NoEvent

\* a parse step that keeps the source text of every event
ParseEventKeepsAll(json_bytes) ==
    LET parsed == from_slice(json_bytes) IN
    IF parsed.ok
    THEN Event(parsed.kind, from_string_trunc(Canon(from_utf8_lossy(json_bytes))))
    ELSE Err("Json")

\* WsClient::recv_json, from `let json_str` on: parse, keep the source text of
\* a Dispatch event
ParseEvent(json_bytes) ==
    LET parsed == from_slice(json_bytes) IN
    IF parsed.ok
    THEN Event(parsed.kind,
               IF parsed.kind = "Dispatch"
               THEN from_string_trunc(Canon(from_utf8_lossy(json_bytes)))
               ELSE <<>>)
    ELSE Err("Json")

\* a match whose Text arm throws away the bytes accumulated so far
RecvMessageTextClears(self, message) ==
    CASE message.kind = "Text" ->
            [self |-> IF self.variant = "Zlib"
                      THEN [self EXCEPT !.compressed = <<>>] ELSE self,
             codec |-> NotRun, steps |-> <<>>,
             res |-> ParseEvent(message.text)]
      [] message.kind = "Binary" ->
            LET Inflated(r) ==
                    [self |-> r.self, codec |-> r.res, steps |-> r.steps,
                     res |-> CASE r.res.tag = "None" -> NoEvent
                               [] r.res.tag = "Some" -> ParseEvent(r.res.out)
                               [] r.res.tag = "Err" -> Err(r.res.err)
                               [] OTHER -> Panicked]
            IN  Inflated(inflate(self, message.bytes))
      [] message.kind = "CloseSome" ->
            [self |-> self, codec |-> NotRun, steps |-> <<>>, res |-> Err("Closed")]
      [] OTHER ->
            [self |-> self, codec |-> NotRun, steps |-> <<>>, res |-> NoEvent]

\* WsClient::recv_json, the match on the message pulled from the socket
RecvMessage(self, message) ==
    CASE message.kind = "Text" ->
            [self |-> self, codec |-> NotRun, steps |-> <<>>,
             res |-> ParseEvent(message.text)]
      [] message.kind = "Binary" ->
            LET Inflated(r) ==
                    [self |-> r.self, codec |-> r.res, steps |-> r.steps,
                     res |-> CASE r.res.tag = "None" -> NoEvent
                               [] r.res.tag = "Some" -> ParseEvent(r.res.out)
                               [] r.res.tag = "Err" -> Err(r.res.err)
                               [] OTHER -> Panicked]
            IN  Inflated(inflate(self, message.bytes))
      [] message.kind = "CloseSome" ->
            [self |-> self, codec |-> NotRun, steps |-> <<>>, res |-> Err("Closed")]
      [] OTHER ->
            [self |-> self, codec |-> NotRun, steps |-> <<>>, res |-> NoEvent]

\* ---------------------------------------------------------------- state
VARIABLES
    requested,    \* the TransportCompression given to connect
    compression,  \* WsClient.compression
    inbox,        \* WsClient.stream, read side: the frame next() yields next
    ended,        \* WsClient.stream: the read side yields nothing any more
    txClosed,     \* WsClient.stream: a close frame was sent
    wire,         \* the server: the message being framed, bytes sent, count
    hist,         \* history: what was fed to inflate since the last message
    last,         \* the last operation: what it pulled, sent and returned
    call          \* a call on another type of the crate: arguments and result

\* the variables of the gateway client
gateway == <<requested, compression, inbox, ended, txClosed, wire, hist, last>>

vars == <<requested, compression, inbox, ended, txClosed, wire, hist, last, call>>

TransportCompression == {"None", "Zlib", "Zstd"}

\* the bytes a server puts in payloads; 3 is an invalid code
PayloadBytes == {1, 2, 3}

\* how a message can end on the wire: the sync-flush marker of the shared
\* deflate stream; the end of the zlib stream of the payload; a flush of the
\* shared zstd frame (nothing) or the end of that frame
Trailers(mode) ==
    CASE mode = "Zlib" -> {ZLIB_SUFFIX}
      [] mode = "None" -> {<<4>>}
      [] mode = "Zstd" -> {<<>>, <<4>>}

ValidPayload(payload) == \A i \in 1..Len(payload) : payload[i] \in {1, 2}

\* texts of text frames: a Dispatch, a HeartbeatAck, not JSON
TextPayloads == {Run(1, 1), Run(2, 1), Run(9, 1)}

Call(op, how, pulled, codec, steps, sent, res) ==
    [op |-> op, how |-> how, pulled |-> pulled, codec |-> codec, steps |-> steps,
     sent |-> sent, res |-> res]

\* WsClient::connect, and a server that will send `limit` binary messages
Connected(limit) ==
    /\ requested \in TransportCompression
    /\ compression = CompressionFrom(requested)
    /\ inbox = <<>>
    /\ ended = FALSE
    /\ txClosed = FALSE
    /\ wire = [msg |-> <<>>, pos |-> 0, left |-> limit, open |-> TRUE]
    /\ hist = [valid |-> TRUE, fed |-> <<>>]
    /\ last = Call("connect", "", NoFrame, NotRun, <<>>, NoValue, Unit)

\* no call on another type is under way
NoCall == [fn |-> "none"]

Init == Connected(1) /\ call = NoCall

\* ------------------------------------------------------------ the server
\* the server compresses the next message
ServerBegin ==
    /\ wire.open
    /\ wire.pos = Len(wire.msg)
    /\ wire.left > 0
    /\ \E payload \in BSeq(PayloadBytes, MaxPayload), trailer \in Trailers(requested) :
        /\ wire' = [wire EXCEPT !.msg = payload \o trailer,
                                !.pos = 0, !.left = @ - 1]
        /\ hist' = [hist EXCEPT !.valid = @ /\ ValidPayload(payload)]
    /\ UNCHANGED <<call, requested, compression, inbox, ended, txClosed, last>>

\* the next k bytes of the message leave as one binary frame
ServerBinary ==
    /\ wire.open
    /\ wire.pos < Len(wire.msg)
    /\ inbox = <<>>
    /\ \E k \in 0..(Len(wire.msg) - wire.pos) :
        /\ inbox' = <<Frame("Binary", SubSeq(wire.msg, wire.pos + 1, wire.pos + k),
                            <<>>, wire.pos + k = Len(wire.msg), wire.msg)>>
        /\ wire' = [wire EXCEPT !.pos = @ + k]
    /\ UNCHANGED <<call, requested, compression, ended, txClosed, hist, last>>

\* a text frame
ServerText ==
    /\ wire.open
    /\ inbox = <<>>
    /\ \E text \in TextPayloads :
        inbox' = <<Frame("Text", <<>>, text, FALSE, <<>>)>>
    /\ UNCHANGED <<call, requested, compression, ended, txClosed, wire, hist, last>>

\* a ping or a pong
ServerControl ==
    /\ wire.open
    /\ inbox = <<>>
    /\ \E kind \in {"Ping", "Pong"} :
        inbox' = <<Frame(kind, <<>>, <<>>, FALSE, <<>>)>>
    /\ UNCHANGED <<call, requested, compression, ended, txClosed, wire, hist, last>>

\* a close frame, with or without a payload, or a failure of the connection;
\* nothing follows either
ServerClose ==
    /\ wire.open
    /\ inbox = <<>>
    /\ \E kind \in {"CloseSome", "CloseNone", "Error"} :
        inbox' = <<Frame(kind, <<>>, <<>>, FALSE, <<>>)>>
    /\ wire' = [wire EXCEPT !.open = FALSE]
    /\ UNCHANGED <<call, requested, compression, ended, txClosed, hist, last>>

\* ------------------------------------------------------------ the client
\* a timeout that surfaces as an error
OnElapsedFails == Err("Elapsed")

\* what recv_json returns when timeout(TIMEOUT, stream.next()) elapses
OnElapsed == NoEvent

\* recv_json, Err(_): no frame within TIMEOUT
RecvTimeout ==
    /\ ~ended
    /\ inbox = <<>>
    /\ last' = Call("recv_json", "timeout", NoFrame, NotRun, <<>>, NoValue, OnElapsed)
    /\ UNCHANGED <<call, requested, compression, inbox, ended, txClosed, wire, hist>>

\* a recv_json that reports the end of the stream as an error
RecvEndedFails ==
    /\ ended
    /\ last' = Call("recv_json", "ended", NoFrame, NotRun, <<>>, NoValue,
                    Err("Tungstenite"))
    /\ UNCHANGED <<call, requested, compression, inbox, ended, txClosed, wire, hist>>

\* recv_json, Ok(None): the stream has ended
RecvEnded ==
    /\ ended
    /\ last' = Call("recv_json", "ended", NoFrame, NotRun, <<>>, NoValue, NoEvent)
    /\ UNCHANGED <<call, requested, compression, inbox, ended, txClosed, wire, hist>>

\* recv_json, Ok(Some(Err(e)))
RecvError ==
    /\ ~ended
    /\ inbox # <<>>
    /\ Head(inbox).kind = "Error"
    /\ inbox' = Tail(inbox)
    /\ ended' = TRUE
    /\ last' = Call("recv_json", "error", Head(inbox), NotRun, <<>>, NoValue,
                    Err("Tungstenite"))
    /\ UNCHANGED <<call, requested, compression, txClosed, wire, hist>>

\* recv_json, Ok(Some(Ok(msg)))
RecvFrame ==
    /\ ~ended
    /\ inbox # <<>>
    /\ Head(inbox).kind # "Error"
    /\ \E message \in {Head(inbox)} :
        \E r \in {RecvMessage(compression, message)} :
           /\ compression' = r.self
           /\ inbox' = Tail(inbox)
           /\ ended' = (message.kind \in {"CloseSome", "CloseNone"})
           /\ hist' = IF message.kind = "Binary" /\ compression.variant = "Zlib"
                      THEN [hist EXCEPT !.fed = IF r.codec.tag = "Some"
                                                THEN <<>>
                                                ELSE @ \o message.bytes]
                      ELSE hist
           /\ last' = Call("recv_json", "message", message, r.codec, r.steps,
                           NoValue, r.res)
    /\ UNCHANGED <<call, requested, txClosed, wire>>

\* WsClient::recv_json
recv_json == RecvTimeout \/ RecvEnded \/ RecvError \/ RecvFrame

\* WsClient::next: the frame is handed to the caller as it is
next ==
    /\ \/ /\ ended
          /\ last' = Call("next", "ended", NoFrame, NotRun, <<>>, NoValue, NoEvent)
          /\ UNCHANGED <<inbox, ended, hist>>
       \/ /\ ~ended
          /\ inbox # <<>>
          /\ inbox' = Tail(inbox)
          /\ ended' = (Head(inbox).kind \in {"CloseSome", "CloseNone", "Error"})
          /\ hist' = IF Head(inbox).kind = "Binary"
                     THEN [hist EXCEPT !.valid = FALSE]
                     ELSE hist
          /\ last' = Call("next", "message", Head(inbox), NotRun, <<>>, NoValue,
                          IF Head(inbox).kind = "Error"
                          THEN Err("Tungstenite") ELSE Unit)
    /\ UNCHANGED <<call, requested, compression, txClosed, wire>>

\* ------------------------------------------- serde_json::to_string(value)
\* A JSON text is kept as its tree: null, a number, a string, a boolean, an
\* array of texts, or an object, the sequence of its members in the order in
\* which they are written.
JNull == [t |-> "null"]

JNumber(n) == [t |-> "number", n |-> n]

JString(s) == [t |-> "string", s |-> s]

JBool(b) == [t |-> "bool", b |-> b]

JArray(items) == [t |-> "array", items |-> items]

JObject(members) == [t |-> "object", members |-> members]

JMember(key, value) == <<[key |-> key, value |-> value]>>

\* Serialize for Opcode: the number of the opcode
OpcodeNumber(op) ==
    CASE op = "Heartbeat" -> 1
      [] op = "Identify" -> 2
      [] op = "PresenceUpdate" -> 3
      [] op = "Resume" -> 6
      [] op = "RequestGuildMembers" -> 8

\* a serializer that writes a missing sequence number as 0
SerializeHeartbeatZero(seq) ==
    IF seq = <<>> THEN JNumber(0) ELSE JNumber(seq[1])

\* Serialize for WebSocketMessageData::Heartbeat(Option<u64>): untagged, so
\* the option itself, null or the number
SerializeHeartbeat(seq) ==
    IF seq = <<>> THEN JNull ELSE JNumber(seq[1])

\* Serialize for ChunkGuildMessage: query and user_ids are skipped when None
SerializeChunkGuild(d) ==
    JObject(JMember("guild_id", JNumber(d.guild_id))
            \o (IF "query" \in DOMAIN d
                THEN JMember("query", JString(d.query)) ELSE <<>>)
            \o JMember("limit", JNumber(d.limit))
            \o JMember("presences", JBool(d.presences))
            \o (IF "user_ids" \in DOMAIN d
                THEN JMember("user_ids",
                             JArray([i \in DOMAIN d.user_ids |->
                                        JNumber(d.user_ids[i])]))
                ELSE <<>>)
            \o JMember("nonce", JString(d.nonce)))

\* Serialize for PresenceUpdateMessage
SerializePresence(d) ==
    JObject(JMember("afk", JBool(d.afk))
            \o JMember("status", JString(d.status))
            \o JMember("since", JString(d.since))
            \o JMember("activities",
                       JArray([i \in DOMAIN d.activities |->
                                  JString(d.activities[i])])))

\* Serialize for WebSocketMessageData::Identify
SerializeIdentify(d) ==
    JObject(JMember("compress", JBool(d.compress))
            \o JMember("token", JString(d.token))
            \o JMember("large_threshold", JString(d.large_threshold))
            \o JMember("shard", JString(d.shard))
            \o JMember("intents", JString(d.intents))
            \o JMember("properties",
                       JObject(JMember("browser", JString(d.properties.browser))
                               \o JMember("device", JString(d.properties.device))
                               \o JMember("os", JString(d.properties.os))))
            \o JMember("presence", SerializePresence(d.presence)))

\* Serialize for WebSocketMessageData::Resume
SerializeResume(d) ==
    JObject(JMember("session_id", JString(d.session_id))
            \o JMember("token", JString(d.token))
            \o JMember("seq", JNumber(d.seq)))

\* Serialize for WebSocketMessage: the object {op, d}, d written by the
\* variant of WebSocketMessageData that the operation built
to_string(value) ==
    JObject(JMember("op", JNumber(OpcodeNumber(value.op)))
            \o JMember("d",
                   CASE value.op = "Heartbeat" -> SerializeHeartbeat(value.d)
                     [] value.op = "Identify" -> SerializeIdentify(value.d)
                     [] value.op = "PresenceUpdate" -> SerializePresence(value.d)
                     [] value.op = "Resume" -> SerializeResume(value.d)
                     [] value.op = "RequestGuildMembers" ->
                            SerializeChunkGuild(value.d)))

\* SinkExt::send on the socket: refused once a close frame went out or the
\* connection is gone
SinkSend == IF txClosed \/ ended THEN Err("Tungstenite") ELSE Unit

\* serde_json::to_string(value).map(Message::Text): the value, and the text
\* of the frame made of it
Message_Text(value) == [d |-> value.d, text |-> to_string(value), op |-> value.op]

\* WsClient::send_json: serde_json::to_string(value), one text frame
send_json(op, how, value) ==
    /\ last' = Call(op, how, NoFrame, NotRun, <<>>, Message_Text(value), SinkSend)
    /\ UNCHANGED <<call, requested, compression, inbox, ended, txClosed, wire, hist>>

\* struct WebSocketMessage
WebSocketMessage(op, d) == [d |-> d, op |-> op]

\* struct PresenceUpdateMessage, as the send operations fill it
PresenceUpdateMessage(presence) ==
    [afk |-> FALSE, status |-> presence.status, since |-> "now",
     activities |-> presence.activity]

\* PresenceData: at most one activity, a status
PresenceDatas == {[status |-> "online", activity |-> a] : a \in {<<>>, <<"game">>}}

\* WsClient::send_heartbeat
send_heartbeat ==
    \E seq \in {<<>>, <<7>>} :
        send_json("send_heartbeat", "", WebSocketMessage("Heartbeat", seq))

\* a test that takes every codec but Zstd for the Payload codec
IsNotZstd(self) == self.variant # "Zstd"

\* matches!(self.compression, Compression::Payload { .. })
IsPayload(self) == self.variant = "Payload"

\* WsClient::send_identify
send_identify ==
    \E presence \in PresenceDatas :
        send_json("send_identify", "",
            WebSocketMessage("Identify",
                [compress |-> IsPayload(compression), token |-> "token",
                 large_threshold |-> "LARGE_THRESHOLD",
                 shard |-> "shard", intents |-> "intents",
                 properties |-> [browser |-> "serenity", device |-> "serenity",
                                 os |-> "OS"],
                 presence |-> PresenceUpdateMessage(presence)]))

\* WsClient::send_presence_update
send_presence_update ==
    \E presence \in PresenceDatas :
        send_json("send_presence_update", "",
            WebSocketMessage("PresenceUpdate", PresenceUpdateMessage(presence)))

\* WsClient::send_resume
send_resume ==
    send_json("send_resume", "",
        WebSocketMessage("Resume",
            [seq |-> 7, token |-> "token", session_id |-> "session"]))

\* ChunkGuildFilter
ChunkGuildFilters ==
    {[kind |-> "None"], [kind |-> "Query", query |-> "foo"],
     [kind |-> "UserIds", user_ids |-> <<1, 2, 3>>]}

\* a ChunkGuildMessage whose query is written even when it is None
ChunkGuildMessageWritesNull(guild_id, query, limit, presences, user_ids, nonce) ==
    IF user_ids = <<>>
    THEN [limit |-> limit, guild_id |-> guild_id,
          query |-> IF query = <<>> THEN "null" ELSE query[1],
          presences |-> presences, nonce |-> nonce]
    ELSE [limit |-> limit, guild_id |-> guild_id,
          query |-> IF query = <<>> THEN "null" ELSE query[1],
          presences |-> presences, user_ids |-> user_ids[1], nonce |-> nonce]

\* struct ChunkGuildMessage on the wire: a field that is None is left out
ChunkGuildMessage(guild_id, query, limit, presences, user_ids, nonce) ==
    IF query = <<>> /\ user_ids = <<>>
    THEN [limit |-> limit, guild_id |-> guild_id,
          presences |-> presences, nonce |-> nonce]
    ELSE IF user_ids = <<>>
    THEN [limit |-> limit, guild_id |-> guild_id,
          query |-> query[1], presences |-> presences, nonce |-> nonce]
    ELSE IF query = <<>>
    THEN [limit |-> limit, guild_id |-> guild_id,
          presences |-> presences, user_ids |-> user_ids[1], nonce |-> nonce]
    ELSE [limit |-> limit, guild_id |-> guild_id, query |-> query[1],
          presences |-> presences, user_ids |-> user_ids[1], nonce |-> nonce]

\* an unwrap_or that gives the default even when a value is given
unwrap_or_default(option, default) == default

\* Option::unwrap_or
unwrap_or(option, default) == IF option = <<>> THEN default ELSE option[1]

\* WsClient::send_chunk_guild(guild_id, shard_info, limit, presences, filter,
\* nonce); shard_info is only logged
WsClient_send_chunk_guild(guild_id, limit, presences, filter, nonce) ==
    LET query == CASE filter.kind = "None" -> <<"">>
                   [] filter.kind = "Query" -> <<filter.query>>
                   [] OTHER -> <<>>
        user_ids == IF filter.kind = "UserIds" THEN <<filter.user_ids>> ELSE <<>>
    IN  send_json("send_chunk_guild", filter.kind,
            WebSocketMessage("RequestGuildMembers",
                ChunkGuildMessage(guild_id, query, unwrap_or(limit, 0),
                                  presences, user_ids, unwrap_or(nonce, ""))))

\* WsClient::send_chunk_guild, as the shard runner calls it
send_chunk_guild ==
    \E filter \in ChunkGuildFilters, limit \in {<<>>}, nonce \in {<<>>} :
        WsClient_send_chunk_guild(10, limit, TRUE, filter, nonce)

\* WsClient::send: a raw message, handed to the socket as it is
send ==
    /\ last' = Call("send", "", NoFrame, NotRun, <<>>, [d |-> <<>>, op |-> "raw"],
                    SinkSend)
    /\ UNCHANGED <<call, requested, compression, inbox, ended, txClosed, wire, hist>>

\* WsClient::close
close ==
    /\ txClosed' = TRUE
    /\ last' = Call("close", "", NoFrame, NotRun, <<>>, NoValue, SinkSend)
    /\ UNCHANGED <<call, requested, compression, inbox, ended, wire, hist>>

Server == ServerBegin \/ ServerBinary \/ ServerText \/ ServerControl \/ ServerClose

Next ==
    \/ Server
    \/ recv_json
    \/ next
    \/ send_heartbeat
    \/ send_identify
    \/ send_presence_update
    \/ send_resume
    \/ send_chunk_guild
    \/ send
    \/ close

\* the whole client against a server that sends one binary message
Spec == Init /\ [][Next]_vars

\* send_chunk_guild with every combination of its arguments: a limit and a
\* nonce given or not, either value of presences, two guilds
ChunkLimits == {<<>>, <<0>>, <<5>>, <<65535>>}

ChunkNonces == {<<>>, <<"">>, <<"n">>}

ChunkGuildIds == {10, 11}

InitChunk ==
    /\ Connected(0)
    /\ \E guild_id \in ChunkGuildIds, limit \in ChunkLimits,
          presences \in BOOLEAN, filter \in ChunkGuildFilters,
          nonce \in ChunkNonces :
           call = [fn |-> "send_chunk_guild", guild_id |-> guild_id,
                   limit |-> limit, presences |-> presences,
                   filter |-> filter, nonce |-> nonce]

\* ws.send_chunk_guild(guild_id, shard_info, limit, presences, filter, nonce)
SendChunkGuild ==
    WsClient_send_chunk_guild(call.guild_id, call.limit, call.presences,
                              call.filter, call.nonce)

NextChunk == SendChunkGuild

SpecChunk == InitChunk /\ [][NextChunk]_vars

\* the codec under a stream of MaxMessages binary messages
InitStream == Connected(MaxMessages) /\ call = NoCall

NextStream == ServerBegin \/ ServerBinary \/ RecvTimeout \/ RecvFrame

SpecStream == InitStream /\ [][NextStream]_vars

\* The end of recv_json on its own, from `let json_str` on, for decompressed
\* payloads of up to MaxJson bytes.  A byte of 128 or more stands for a byte
\* sequence that is not valid UTF-8 (as in from_utf8_lossy); 9 is a byte of
\* valid UTF-8 that is not JSON.
MaxJson == 3

JsonBytes == {1, 2, 9, 200}

\* the bytes of json_bytes, as runs
AsRuns(bytes) == Canon([i \in 1..Len(bytes) |-> [sym |-> bytes[i], n |-> 1]])

InitParse ==
    /\ Connected(0)
    /\ requested = "None"
    /\ \E bytes \in BSeq(JsonBytes, MaxJson) :
           call = [fn |-> "json_bytes", json_bytes |-> AsRuns(bytes),
                   ret |-> NoEvent]

\* recv_json, once inflate has returned Some(json_bytes)
RecvJsonParse ==
    /\ call.fn = "json_bytes"
    /\ call' = [call EXCEPT !.fn = "WsClient::recv_json",
                            !.ret = ParseEvent(call.json_bytes)]
    /\ UNCHANGED gateway

NextParse == RecvJsonParse

SpecParse == InitParse /\ [][NextParse]_vars

\* ============================================================== secrets.rs
\* A string is a sequence of pieces: "x" an ordinary character, "." and " ",
\* the words "Bot " and "Bearer " (with their space), "long" a run of LongPart
\* ordinary characters; "Bot" and "Bearer" are the words without their space.
MaxToken == 6

LongPart == 130

TokenPieces == {"x", ".", " ", "Bot ", "Bearer ", "long"}

\* str::len of a piece, in bytes
PieceLen(piece) ==
    CASE piece = "Bot " -> 4
      [] piece = "Bearer " -> 7
      [] piece = "Bot" -> 3
      [] piece = "Bearer" -> 6
      [] piece = "Box " -> 4
      [] piece = "Box" -> 3
      [] piece = "long" -> LongPart
      [] OTHER -> 1

RECURSIVE StrLen(_)
\* str::len
StrLen(str) == IF str = <<>> THEN 0 ELSE PieceLen(Head(str)) + StrLen(Tail(str))

RECURSIVE TrimStart(_)
\* str::trim_start
TrimStart(str) ==
    IF str # <<>> /\ Head(str) = " " THEN TrimStart(Tail(str)) ELSE str

RECURSIVE TrimEnd(_)
\* str::trim_end: the space that ends a word is whitespace too
TrimEnd(str) ==
    IF str = <<>> THEN str
    ELSE LET end == str[Len(str)]
             front == Take(str, Len(str) - 1)
         IN  CASE end = " " -> TrimEnd(front)
               [] end = "Bot " -> Append(front, "Bot")
               [] end = "Bearer " -> Append(front, "Bearer")
               [] end = "Box " -> Append(front, "Box")
               [] OTHER -> str

\* str::trim
Trim(str) == TrimEnd(TrimStart(str))

RECURSIVE trim_start_matches(_, _)
\* str::trim_start_matches: every repetition of the pattern at the start
trim_start_matches(str, pat) ==
    IF str # <<>> /\ Head(str) = pat
    THEN trim_start_matches(Tail(str), pat)
    ELSE str

RECURSIVE split(_, _)
\* str::split, collected: the parts between the separators
split(str, sep) ==
    IF \A i \in 1..Len(str) : str[i] # sep
    THEN <<str>>
    ELSE LET i == CHOOSE j \in 1..Len(str) :
                      str[j] = sep /\ \A h \in 1..(j - 1) : str[h] # sep
         IN  <<Take(str, i - 1)>> \o split(Drop(str, i), sep)

\* a validity test that does not look for a fourth part
is_valid_first_three(parts) ==
    /\ Len(parts) >= 1 /\ parts[1] # <<>>
    /\ Len(parts) >= 2 /\ parts[2] # <<>>
    /\ Len(parts) >= 3 /\ parts[3] # <<>>

\* Token::from_str, is_valid: three calls of next() that give a part that is
\* not empty, a fourth that gives None
is_valid(parts) ==
    /\ Len(parts) >= 1 /\ parts[1] # <<>>
    /\ Len(parts) >= 2 /\ parts[2] # <<>>
    /\ Len(parts) >= 3 /\ parts[3] # <<>>
    /\ Len(parts) < 4

\* aformat!("Box {}", CapStr::<128>(token)): the prefix, and the token cut to
\* 128 bytes (len is how much of text is kept)
Formatted(token) ==
    [prefix |-> "Box ", text |-> token, len |-> Min(StrLen(token), 128)]

TokenOk(secret) == [ok |-> TRUE, secret |-> secret, err |-> ""]

TokenErr(err) == [ok |-> FALSE, secret |-> <<>>, err |-> err]

\* <Token as FromStr>::from_str
from_str(s) ==
    LET token == trim_start_matches(trim_start_matches(Trim(s), "Bot "), "Bearer ")
    IN  IF is_valid(split(token, "."))
        THEN TokenOk(Formatted(token))
        ELSE TokenErr("InvalidToken")

RECURSIVE CapStr(_, _)
\* the first n bytes of text.  Only a "long" run can reach past the limit;
\* what is kept of it is a run of ordinary characters again, and it is the
\* last piece
CapStr(text, n) ==
    IF text = <<>> \/ n = 0 THEN <<>>
    ELSE IF PieceLen(Head(text)) <= n
    THEN <<Head(text)>> \o CapStr(Tail(text), n - PieceLen(Head(text)))
    ELSE <<"long">>

\* Token::expose_secret: the string that was stored
expose_secret(secret) == <<secret.prefix>> \o CapStr(secret.text, secret.len)

\* the result of a call that has not returned yet
Pending == [ok |-> FALSE, secret |-> <<>>, err |-> "pending"]

\* the gateway client at rest while another type is exercised
GatewayIdle == Connected(0) /\ requested = "None"

InitToken ==
    /\ GatewayIdle
    /\ \E s \in BSeq(TokenPieces, MaxToken) :
           call = [fn |-> "from_str", s |-> s, ret |-> Pending,
                   again |-> Pending]

\* s.parse::<Token>()
ParseToken ==
    /\ call.fn = "from_str"
    /\ call.ret = Pending
    /\ call' = [call EXCEPT !.ret = from_str(call.s)]
    /\ UNCHANGED gateway

\* Token::expose_secret on the parsed token: reads, changes nothing
ExposeSecret ==
    /\ call.fn = "from_str"
    /\ call.ret.ok
    /\ call' = [call EXCEPT !.fn = "expose_secret"]
    /\ UNCHANGED gateway

\* Token::from_str(t.expose_secret()) on the parsed token t
ParseExposed ==
    /\ call.fn = "expose_secret"
    /\ call.again = Pending
    /\ call' = [call EXCEPT !.again = from_str(expose_secret(call.ret.secret))]
    /\ UNCHANGED gateway

NextToken == ParseToken \/ ExposeSecret \/ ParseExposed

SpecToken == InitToken /\ [][NextToken]_vars

\* ------------------------------------------------ model/guild (hierarchy)
\* user ids run over 1..MaxUsers, role ids over 1..MaxRoles, role positions
\* over -1..MaxPosition (Role::position is signed), and a member carries at
\* most MaxMemberRoles role ids
MaxUsers == 3
MaxRoles == 3
MaxPosition == 1
MaxMemberRoles == 2

UserIds == 1..MaxUsers
RoleIds == 1..MaxRoles
Positions == (0 - 1)..MaxPosition

\* Option<UserId>::None and Option<&Role>::None; ids are never zero
NoUser == 0
NoRole == [id |-> 0, position |-> 0]

\* the users whose members the cache may hold: the last user id is one the
\* guild never has a member for
CachedUsers == 1..(MaxUsers - 1)

\* Guild::roles, a map from the role id to the role
RoleMaps == UNION {[S -> Positions] : S \in SUBSET RoleIds}

\* Guild::members, a map from the user id to the member
MemberMaps ==
    UNION {[S -> BSeq(RoleIds, MaxMemberRoles)] : S \in SUBSET CachedUsers}

Member(id, roles) == [id |-> id, roles |-> roles]

RECURSIVE HighestFrom(_, _, _)
\* the loop of _member_highest_role_in over member.roles
HighestFrom(roles, ids, highest) ==
    IF ids = <<>> THEN highest
    ELSE IF Head(ids) \notin DOMAIN roles
    THEN HighestFrom(roles, Tail(ids), highest)
    ELSE IF /\ highest # NoRole
            /\ \/ roles[Head(ids)] < highest.position
               \/ /\ roles[Head(ids)] = highest.position
                  /\ Head(ids) > highest.id
    THEN HighestFrom(roles, Tail(ids), highest)
    ELSE HighestFrom(roles, Tail(ids),
                     [id |-> Head(ids), position |-> roles[Head(ids)]])

RECURSIVE HighestUntied(_, _, _)
\* the loop without the comparison of the ids: of the roles at the highest
\* position the last in member.roles is kept
HighestUntied(roles, ids, highest) ==
    IF ids = <<>> THEN highest
    ELSE IF Head(ids) \notin DOMAIN roles
    THEN HighestUntied(roles, Tail(ids), highest)
    ELSE IF highest # NoRole /\ roles[Head(ids)] < highest.position
    THEN HighestUntied(roles, Tail(ids), highest)
    ELSE HighestUntied(roles, Tail(ids),
                       [id |-> Head(ids), position |-> roles[Head(ids)]])

member_highest_role_untied(roles, member) ==
    HighestUntied(roles, member.roles, NoRole)

member_highest_role_in(roles, member) ==
    HighestFrom(roles, member.roles, NoRole)

member_highest_role(self, member) ==
    member_highest_role_in(self.roles, member)

\* partial_guild.member_highest_role(member)
PartialGuild_member_highest_role(self, member) ==
    member_highest_role_in(self.roles, member)

\* highest.map_or((RoleId::new(1), 0), |r| (r.id, r.position))
map_or_role(highest) ==
    IF highest = NoRole THEN [id |-> 1, position |-> 0] ELSE highest

\* a variant whose last comparison prefers the higher role id
HierarchyHigherIdWins(lhs_role, rhs_role, lhs, rhs) ==
    IF (lhs_role.position = 0 /\ rhs_role.position = 0)
       \/ lhs_role.id = rhs_role.id
    THEN NoUser
    ELSE IF lhs_role.position > rhs_role.position THEN lhs.id
    ELSE IF rhs_role.position > lhs_role.position THEN rhs.id
    ELSE IF lhs_role.position = rhs_role.position
            /\ lhs_role.id > rhs_role.id
    THEN lhs.id
    ELSE rhs.id

\* _greater_member_hierarchy_in, once neither member is the owner
HierarchyOfRoles(lhs_role, rhs_role, lhs, rhs) ==
    IF (lhs_role.position = 0 /\ rhs_role.position = 0)
       \/ lhs_role.id = rhs_role.id
    THEN NoUser
    ELSE IF lhs_role.position > rhs_role.position THEN lhs.id
    ELSE IF rhs_role.position > lhs_role.position THEN rhs.id
    ELSE IF lhs_role.position = rhs_role.position
            /\ lhs_role.id < rhs_role.id
    THEN lhs.id
    ELSE rhs.id

greater_member_hierarchy_in(lhs_highest_role, rhs_highest_role, owner_id, lhs, rhs) ==
    IF lhs.id = rhs.id THEN NoUser
    ELSE IF lhs.id = owner_id THEN lhs.id
    ELSE IF rhs.id = owner_id THEN rhs.id
    ELSE HierarchyOfRoles(map_or_role(lhs_highest_role),
                          map_or_role(rhs_highest_role), lhs, rhs)

\* Guild::greater_member_hierarchy
greater_member_hierarchy(self, lhs_id, rhs_id) ==
    IF lhs_id \notin DOMAIN self.members THEN NoUser
    ELSE IF rhs_id \notin DOMAIN self.members THEN NoUser
    ELSE greater_member_hierarchy_in(
             member_highest_role(self, Member(lhs_id, self.members[lhs_id])),
             member_highest_role(self, Member(rhs_id, self.members[rhs_id])),
             self.owner_id,
             Member(lhs_id, self.members[lhs_id]),
             Member(rhs_id, self.members[rhs_id]))

\* PartialGuild::greater_member_hierarchy: the members are given by value
PartialGuild_greater_member_hierarchy(self, lhs, rhs) ==
    greater_member_hierarchy_in(member_highest_role(self, lhs),
                                 member_highest_role(self, rhs),
                                 self.owner_id, lhs, rhs)

\* the PartialGuild of a guild: the same roles and owner, no members
PartialGuild(guild) == [roles |-> guild.roles, owner_id |-> guild.owner_id]

InitHierarchy ==
    /\ GatewayIdle
    /\ \E roles \in RoleMaps, members \in MemberMaps, owner_id \in UserIds :
           call = [fn |-> "guild",
                   guild |-> [roles |-> roles, members |-> members,
                              owner_id |-> owner_id],
                   lhs |-> NoUser, rhs |-> NoUser, ret |-> NoUser]

\* guild.greater_member_hierarchy(lhs_id, rhs_id)
GreaterMemberHierarchy ==
    /\ \E lhs_id \in UserIds, rhs_id \in UserIds :
           call' = [call EXCEPT
                      !.fn = "Guild::greater_member_hierarchy",
                      !.lhs = lhs_id, !.rhs = rhs_id,
                      !.ret = greater_member_hierarchy(call.guild,
                                                       lhs_id, rhs_id)]
    /\ UNCHANGED gateway

\* partial_guild.greater_member_hierarchy(&lhs, &rhs), with two members
\* taken from the cache of the guild
PartialGreaterMemberHierarchy ==
    /\ \E lhs_id \in DOMAIN call.guild.members,
          rhs_id \in DOMAIN call.guild.members :
           call' = [call EXCEPT
                      !.fn = "PartialGuild::greater_member_hierarchy",
                      !.lhs = lhs_id, !.rhs = rhs_id,
                      !.ret = PartialGuild_greater_member_hierarchy(
                                  PartialGuild(call.guild),
                                  Member(lhs_id, call.guild.members[lhs_id]),
                                  Member(rhs_id, call.guild.members[rhs_id]))]
    /\ UNCHANGED gateway

NextHierarchy == GreaterMemberHierarchy \/ PartialGreaterMemberHierarchy

SpecHierarchy == InitHierarchy /\ [][NextHierarchy]_vars

\* member_highest_role on its own: a guild with any roles, and a member (not
\* the owner, no cache needed) holding up to MaxHeld role ids in any order,
\* repeated or unknown to the guild
MaxHeld == MaxMemberRoles + 1

InitHighest ==
    /\ GatewayIdle
    /\ \E roles \in RoleMaps, held \in BSeq(RoleIds, MaxHeld) :
           call = [fn |-> "guild",
                   guild |-> [roles |-> roles, owner_id |-> MaxUsers],
                   member |-> Member(1, held),
                   ret |-> NoRole]

\* guild.member_highest_role(&member)
MemberHighestRole ==
    /\ call.fn = "guild"
    /\ call' = [call EXCEPT
                  !.fn = "Guild::member_highest_role",
                  !.ret = member_highest_role(call.guild, call.member)]
    /\ UNCHANGED gateway

\* partial_guild.member_highest_role(&member)
PartialMemberHighestRole ==
    /\ call.fn = "guild"
    /\ call' = [call EXCEPT
                  !.fn = "PartialGuild::member_highest_role",
                  !.ret = PartialGuild_member_highest_role(
                              PartialGuild(call.guild), call.member)]
    /\ UNCHANGED gateway

NextHighest == MemberHighestRole \/ PartialMemberHighestRole

SpecHighest == InitHighest /\ [][NextHighest]_vars

\* ---------------------------------------------- model/guild (permissions)
\* Permissions is a set of flags.  ADMINISTRATOR is the flag 1 << 3; the flags
\* a channel overwrite can carry are VIEW_CHANNEL (1 << 10) and the MaxFlags - 1
\* flags after it.  A channel holds at most MaxOverwrites overwrites.
MaxFlags == 1
MaxOverwrites == 3

ADMINISTRATOR == 3

ChannelFlags == 10..(9 + MaxFlags)

\* Permissions::all() and Permissions::empty()
Permissions_all == {ADMINISTRATOR} \cup ChannelFlags

Permissions_empty == {}

PermissionSets == SUBSET Permissions_all

\* the guild whose @everyone role has the id of the guild
EveryoneGuildId == 1

RECURSIVE FoldOr(_, _)
\* for p in perms { acc |= p }
FoldOr(acc, perms) ==
    IF perms = <<>> THEN acc ELSE FoldOr(acc \cup Head(perms), Tail(perms))

\* a test for ADMINISTRATOR that never finds it
ContainsAdministratorNever(permissions) == FALSE

\* permissions.contains(Permissions::ADMINISTRATOR)
ContainsAdministrator(permissions) == ADMINISTRATOR \in permissions

\* steps 3 to 8 with the member's allow applied before the member's deny
ApplyOverwritesDenyLast(permissions, data) ==
    (((((permissions \ data.everyone_deny_overwrites)
            \cup data.everyone_allow_overwrites)
           \ FoldOr(Permissions_empty, data.roles_deny_overwrites))
          \cup FoldOr(Permissions_empty, data.roles_allow_overwrites))
         \cup data.member_allow_overwrites)
        \ data.member_deny_overwrites

\* calculate_permissions, steps 3 to 8: the channel overwrites
ApplyOverwrites(permissions, data) ==
    (((((permissions \ data.everyone_deny_overwrites)
            \cup data.everyone_allow_overwrites)
           \ FoldOr(Permissions_empty, data.roles_deny_overwrites))
          \cup FoldOr(Permissions_empty, data.roles_allow_overwrites))
         \ data.member_deny_overwrites)
        \cup data.member_allow_overwrites

\* calculate_permissions
calculate_permissions(data) ==
    IF data.is_guild_owner THEN Permissions_all
    ELSE LET Based(permissions) ==
                 IF ContainsAdministrator(permissions)
                 THEN Permissions_all
                 ELSE ApplyOverwrites(permissions, data)
         IN  Based(FoldOr(data.everyone_permissions, data.user_roles_permissions))

\* member_roles.contains(&role_id)
SeqContains(seq, x) == \E i \in DOMAIN seq : seq[i] = x

\* the six overwrite variables of user_permissions_in_ before the loop
NoOverwrites ==
    [everyone_allow_overwrites |-> Permissions_empty,
     everyone_deny_overwrites |-> Permissions_empty,
     roles_allow_overwrites |-> <<>>,
     roles_deny_overwrites |-> <<>>,
     member_allow_overwrites |-> Permissions_empty,
     member_deny_overwrites |-> Permissions_empty]

RECURSIVE CollectOverwrites(_, _, _, _, _)
\* the loop of user_permissions_in_ over channel.permission_overwrites
CollectOverwrites(overwrites, member_user_id, member_roles, guild_id, acc) ==
    IF overwrites = <<>> THEN acc
    ELSE LET overwrite == Head(overwrites)
             next_acc ==
                 IF overwrite.kind = "Member"
                 THEN IF member_user_id = overwrite.id
                      THEN [acc EXCEPT !.member_allow_overwrites = overwrite.allow,
                                       !.member_deny_overwrites = overwrite.deny]
                      ELSE acc
                 ELSE IF overwrite.id = guild_id
                 THEN [acc EXCEPT !.everyone_allow_overwrites = overwrite.allow,
                                  !.everyone_deny_overwrites = overwrite.deny]
                 ELSE IF SeqContains(member_roles, overwrite.id)
                 THEN [acc EXCEPT !.roles_allow_overwrites = Append(@, overwrite.allow),
                                  !.roles_deny_overwrites = Append(@, overwrite.deny)]
                 ELSE acc
         IN  CollectOverwrites(Tail(overwrites), member_user_id, member_roles,
                               guild_id, next_acc)

\* guild_roles.get(role_id) mapped to its permissions, empty for a missing role
RolePermissions(guild_roles, role_id) ==
    IF role_id \in DOMAIN guild_roles THEN guild_roles[role_id] ELSE Permissions_empty

\* Guild::user_permissions_in_
user_permissions_in_(channel, member_user_id, member_roles, guild_id, guild_roles, guild_owner_id) ==
    LET Collected(acc) ==
            calculate_permissions(
                [is_guild_owner |-> member_user_id = guild_owner_id,
                 everyone_permissions |-> RolePermissions(guild_roles, guild_id),
                 user_roles_permissions |->
                     [i \in DOMAIN member_roles |->
                         RolePermissions(guild_roles, member_roles[i])],
                 everyone_allow_overwrites |-> acc.everyone_allow_overwrites,
                 everyone_deny_overwrites |-> acc.everyone_deny_overwrites,
                 roles_allow_overwrites |-> acc.roles_allow_overwrites,
                 roles_deny_overwrites |-> acc.roles_deny_overwrites,
                 member_allow_overwrites |-> acc.member_allow_overwrites,
                 member_deny_overwrites |-> acc.member_deny_overwrites])
    IN  Collected(CollectOverwrites(channel.permission_overwrites, member_user_id,
                                    member_roles, guild_id, NoOverwrites))

\* Guild::user_permissions_in
user_permissions_in(self, channel, member) ==
    user_permissions_in_(channel, member.id, member.roles, self.id, self.roles,
                         self.owner_id)

\* PartialGuild::user_permissions_in
PartialGuild_user_permissions_in(self, channel, member) ==
    user_permissions_in_(channel, member.id, member.roles, self.id, self.roles,
                         self.owner_id)

\* Guild::roles with the permissions of each role
PermissionRoleMaps == UNION {[S -> PermissionSets] : S \in SUBSET RoleIds}

\* whom an overwrite can be for: a role of the guild, @everyone included, or
\* a user; a channel holds one overwrite for each at most, in this order
OverwriteTargets ==
    [r \in RoleIds |-> [kind |-> "Role", id |-> r]]
        \o [u \in CachedUsers |-> [kind |-> "Member", id |-> u]]

\* allow and deny of an overwrite
OverwriteBits == (SUBSET ChannelFlags) \X (SUBSET ChannelFlags)

RECURSIVE Ascending(_)
Ascending(S) ==
    IF S = {} THEN <<>>
    ELSE LET least == CHOOSE x \in S : \A y \in S : x <= y
         IN  <<least>> \o Ascending(S \ {least})

PermissionOverwrite(target, bits) ==
    [kind |-> target.kind, id |-> target.id, allow |-> bits[1], deny |-> bits[2]]

\* the sets of targets a channel can have overwrites for
OverwriteTargetSets ==
    {T \in SUBSET DOMAIN OverwriteTargets : Cardinality(T) <= MaxOverwrites}

\* GuildChannel::permission_overwrites: one overwrite for each target of S,
\* with the allow and deny that bits gives it
OverwriteList(S, bits) ==
    [i \in 1..Cardinality(S) |->
        PermissionOverwrite(OverwriteTargets[Ascending(S)[i]], bits[Ascending(S)[i]])]

NoChannel == [permission_overwrites |-> <<>>]

\* a guild with its roles, a member of it with user id 1 who holds roles
\* other than @everyone
InitPermissions ==
    /\ GatewayIdle
    /\ \E roles \in PermissionRoleMaps, owner_id \in CachedUsers,
          held \in BSeq(RoleIds \ {EveryoneGuildId}, MaxMemberRoles) :
           call = [fn |-> "guild",
                   guild |-> [id |-> EveryoneGuildId, roles |-> roles,
                              owner_id |-> owner_id],
                   member |-> Member(1, held),
                   channel |-> NoChannel,
                   ret |-> Permissions_empty]

\* guild.user_permissions_in(channel, member)
UserPermissionsIn ==
    /\ call.fn = "guild"
    /\ \E S \in OverwriteTargetSets : \E bits \in [S -> OverwriteBits] :
         \E overwrites \in {OverwriteList(S, bits)} :
           call' = [call EXCEPT
                      !.fn = "Guild::user_permissions_in",
                      !.channel = [permission_overwrites |-> overwrites],
                      !.ret = user_permissions_in(
                                  call.guild,
                                  [permission_overwrites |-> overwrites],
                                  call.member)]
    /\ UNCHANGED gateway

\* partial_guild.user_permissions_in(channel, member), on the PartialGuild that
\* has the id, the roles and the owner of the guild
PartialUserPermissionsIn ==
    /\ call.fn = "guild"
    /\ \E S \in OverwriteTargetSets : \E bits \in [S -> OverwriteBits] :
         \E overwrites \in {OverwriteList(S, bits)} :
           call' = [call EXCEPT
                      !.fn = "PartialGuild::user_permissions_in",
                      !.channel = [permission_overwrites |-> overwrites],
                      !.ret = PartialGuild_user_permissions_in(
                                  [id |-> call.guild.id, roles |-> call.guild.roles,
                                   owner_id |-> call.guild.owner_id],
                                  [permission_overwrites |-> overwrites],
                                  call.member)]
    /\ UNCHANGED gateway

NextPermissions == UserPermissionsIn \/ PartialUserPermissionsIn

SpecPermissions == InitPermissions /\ [][NextPermissions]_vars

\* ------------------------------------------- model/channel/guild_channel.rs
\* at most MaxRequests requests are sent through one Http client
MaxRequests == 2

\* GuildChannel::kind; "Category" stands for every kind the methods below do
\* not name
ChannelTypes ==
    {"Text", "Voice", "Category", "News", "NewsThread", "PublicThread",
     "PrivateThread", "Stage", "Forum"}

GuildChannel(kind) == [kind |-> kind]

\* what the API answers to a request: a body, or an error
Responses ==
    {[tag |-> "Ok", err |-> "", value |-> "body"],
     [tag |-> "Err", err |-> "Http", value |-> ""]}

\* Err(Error::Model(ModelError::InvalidChannelType)), and no request
InvalidChannelType ==
    [sent |-> <<>>,
     ret |-> [tag |-> "Err", err |-> "Model(InvalidChannelType)",
              value |-> ""]]

\* a method of ChannelId or a builder's execute: one request on the route,
\* whose answer is the result
Http(route, user, response) ==
    [sent |-> <<[route |-> route, user |-> user]>>, ret |-> response]

is_text_based(self) ==
    self.kind \in {"Text", "News", "Voice", "Stage", "PublicThread",
                   "PrivateThread", "NewsThread"}

edit_voice_state(self, user_id, response) ==
    IF self.kind # "Stage" THEN InvalidChannelType
    ELSE Http("edit_voice_state", user_id, response)

edit_own_voice_state(self, response) ==
    Http("edit_voice_state", NoUser, response)

create_webhook(self, response) ==
    IF ~is_text_based(self) /\ self.kind # "Forum" THEN InvalidChannelType
    ELSE Http("create_webhook", NoUser, response)

\* a variant that sends the request whatever the kind of the channel
get_stage_instance_unguarded(self, response) ==
    Http("get_stage_instance", NoUser, response)

get_stage_instance(self, response) ==
    IF self.kind # "Stage" THEN InvalidChannelType
    ELSE Http("get_stage_instance", NoUser, response)

create_stage_instance(self, response) ==
    IF self.kind # "Stage" THEN InvalidChannelType
    ELSE Http("create_stage_instance", NoUser, response)

edit_stage_instance(self, response) ==
    IF self.kind # "Stage" THEN InvalidChannelType
    ELSE Http("edit_stage_instance", NoUser, response)

delete_stage_instance(self, response) ==
    IF self.kind # "Stage" THEN InvalidChannelType
    ELSE Http("delete_stage_instance", NoUser, response)

InitChannel ==
    /\ GatewayIdle
    /\ \E kind \in ChannelTypes :
           call = [fn |-> "channel", self |-> GuildChannel(kind),
                   response |-> [tag |-> "", err |-> "", value |-> ""],
                   user |-> NoUser, issued |-> 0,
                   sent |-> <<>>,
                   ret |-> [tag |-> "", err |-> "", value |-> ""]]

\* the call fn on the channel, to which the API would answer response, has
\* the outcome r
Returns(fn, user_id, response, r) ==
    /\ call.issued + Len(r.sent) <= MaxRequests
    /\ call' = [call EXCEPT !.fn = fn, !.response = response,
                            !.user = user_id,
                            !.issued = @ + Len(r.sent),
                            !.sent = r.sent, !.ret = r.ret]
    /\ UNCHANGED gateway

EditVoiceState ==
    \E user_id \in UserIds, response \in Responses :
        Returns("edit_voice_state", user_id, response,
                edit_voice_state(call.self, user_id, response))

EditOwnVoiceState ==
    \E response \in Responses :
        Returns("edit_own_voice_state", NoUser, response,
                edit_own_voice_state(call.self, response))

CreateWebhook ==
    \E response \in Responses :
        Returns("create_webhook", NoUser, response,
                create_webhook(call.self, response))

GetStageInstance ==
    \E response \in Responses :
        Returns("get_stage_instance", NoUser, response,
                get_stage_instance(call.self, response))

CreateStageInstance ==
    \E response \in Responses :
        Returns("create_stage_instance", NoUser, response,
                create_stage_instance(call.self, response))

EditStageInstance ==
    \E response \in Responses :
        Returns("edit_stage_instance", NoUser, response,
                edit_stage_instance(call.self, response))

DeleteStageInstance ==
    \E response \in Responses :
        Returns("delete_stage_instance", NoUser, response,
                delete_stage_instance(call.self, response))

NextChannel ==
    \/ EditVoiceState
    \/ EditOwnVoiceState
    \/ CreateWebhook
    \/ GetStageInstance
    \/ CreateStageInstance
    \/ EditStageInstance
    \/ DeleteStageInstance

SpecChannel == InitChannel /\ [][NextChannel]_vars

\* ---------------------------------------------- model/guild (member_named)
\* the cache holds at most MaxMembers members and the name looked for has at
\* most MaxName characters
MaxMembers == 2
MaxName == 3

\* a string is a sequence of characters, of which these are told apart
NameChars == {"a", "b", "#", "1"}

\* Option<..>::None for a nickname, a discriminator and a found member
NoNick == <<"none">>
NoDiscriminator == 0
NoMember == 0

\* the members the cache may hold, in the order in which it iterates
NamedMembers ==
    [name : {<<"a">>, <<"b">>},
     discriminator : {NoDiscriminator, 1},
     nick : {NoNick, <<"a">>, <<"b">>, <<"a", "#", "1">>}]

RECURSIVE Find(_, _)
\* str::find: the index of the first occurrence of a character, 0 if none
Find(str, ch) ==
    IF str = <<>> THEN 0
    ELSE IF Head(str) = ch THEN 1
    ELSE IF Find(Tail(str), ch) = 0 THEN 0
    ELSE 1 + Find(Tail(str), ch)

RECURSIVE ParseU16(_)
\* str::parse::<u16>: the number written by the digits, -1 for a failure
ParseU16(str) ==
    IF str = <<>> THEN 0 - 1
    ELSE IF str[Len(str)] # "1" THEN 0 - 1
    ELSE IF Len(str) = 1 THEN 1
    ELSE IF ParseU16(SubSeq(str, 1, Len(str) - 1)) < 0 THEN 0 - 1
    ELSE IF 10 * ParseU16(SubSeq(str, 1, Len(str) - 1)) + 1 > 65535
    THEN 0 - 1
    ELSE 10 * ParseU16(SubSeq(str, 1, Len(str) - 1)) + 1

NoTag == [some |-> FALSE, name |-> <<>>, discrim |-> NoDiscriminator]

\* utils::parse_user_tag: the name before the first '#' and the number after
\* it, when that is a number of at most four digits; None otherwise
parse_user_tag(s) ==
    IF Find(s, "#") = 0 THEN NoTag
    ELSE IF ParseU16(SubSeq(s, Find(s, "#") + 1, Len(s))) < 0 THEN NoTag
    ELSE IF ParseU16(SubSeq(s, Find(s, "#") + 1, Len(s))) > 9999 THEN NoTag
    ELSE [some |-> TRUE, name |-> SubSeq(s, 1, Find(s, "#") - 1),
          discrim |-> ParseU16(SubSeq(s, Find(s, "#") + 1, Len(s)))]

RECURSIVE ByUsername(_, _, _, _)
\* the loop over the members: the index of the first whose username is the
\* one looked for and whose discriminator is the one given, if one is given
ByUsername(members, i, username, tag) ==
    IF i > Len(members) THEN NoMember
    ELSE IF /\ members[i].name = username
            /\ (~tag.some \/ members[i].discriminator = tag.discrim)
    THEN i
    ELSE ByUsername(members, i + 1, username, tag)

RECURSIVE ByNick(_, _, _)
\* members.iter().find(..): the first member whose nickname is the name
ByNick(members, i, name) ==
    IF i > Len(members) THEN NoMember
    ELSE IF members[i].nick # NoNick /\ members[i].nick = name THEN i
    ELSE ByNick(members, i + 1, name)

RECURSIVE ByEither(_, _, _, _)
\* a variant with one loop, which takes the first member that matches by
\* username or by nickname
ByEither(members, i, name, tag) ==
    IF i > Len(members) THEN NoMember
    ELSE IF \/ /\ members[i].name = (IF tag.some THEN tag.name ELSE name)
               /\ (~tag.some \/ members[i].discriminator = tag.discrim)
            \/ members[i].nick # NoNick /\ members[i].nick = name
    THEN i
    ELSE ByEither(members, i + 1, name, tag)

member_named_one_loop(members, name, tag) == ByEither(members, 1, name, tag)

\* Guild::member_named, with tag the parsed name
member_named(members, name, tag) ==
    IF ByUsername(members, 1, IF tag.some THEN tag.name ELSE name, tag)
           # NoMember
    THEN ByUsername(members, 1, IF tag.some THEN tag.name ELSE name, tag)
    ELSE ByNick(members, 1, name)

InitNamed ==
    /\ GatewayIdle
    /\ \E members \in BSeq(NamedMembers, MaxMembers),
          name \in BSeq(NameChars, MaxName) :
           call = [fn |-> "guild", members |-> members, name |-> name,
                   ret |-> NoMember]

\* guild.member_named(name)
MemberNamed ==
    /\ call.fn = "guild"
    /\ call' = [call EXCEPT
                  !.fn = "member_named",
                  !.ret = member_named(call.members, call.name,
                                       parse_user_tag(call.name))]
    /\ UNCHANGED gateway

NextNamed == MemberNamed

SpecNamed == InitNamed /\ [][NextNamed]_vars

\* -------------------------------------- model/guild (members_containing, ..)
\* the cache holds at most MaxSearched members; names are written with the
\* characters "a", "A" (whose lowercase is "a") and "b"
MaxSearched == MaxMembers + 1

SearchNames == {<<"a">>, <<"A">>, <<"a", "a">>, <<"A", "a">>, <<"b", "a">>, <<"b", "A">>}

SearchNicks == {NoNick, <<"A">>, <<"a", "b">>}

SearchStrings == {<<"a">>, <<"A">>, <<"b">>}

SearchedMembers == [name : SearchNames, nick : SearchNicks]

\* Option<usize>::None of str::find
NoIndex == 0 - 1

\* None of the filter_map closures
NoName == <<"none">>

\* str::to_lowercase
to_lowercase(str) == [i \in 1..Len(str) |-> IF str[i] = "A" THEN "a" ELSE str[i]]

\* the offsets at which needle occurs in haystack
Occurrences(haystack, needle) ==
    {i \in 0..(Len(haystack) - Len(needle)) :
        SubSeq(haystack, i + 1, i + Len(needle)) = needle}

\* str::find(&str): the offset of the first occurrence, or None
str_find(haystack, needle) ==
    IF Occurrences(haystack, needle) = {} THEN NoIndex
    ELSE CHOOSE i \in Occurrences(haystack, needle) :
             \A j \in Occurrences(haystack, needle) : i <= j

\* str::contains(&str)
str_contains(haystack, needle) == Occurrences(haystack, needle) # {}

\* str::starts_with(&str)
str_starts_with(haystack, needle) == 0 \in Occurrences(haystack, needle)

\* fn starts_with of members_starting_with
starts_with(name, prefix, case_sensitive) ==
    IF case_sensitive THEN str_starts_with(name, prefix)
    ELSE str_starts_with(to_lowercase(name), to_lowercase(prefix))

\* fn contains
contains(haystack, needle, case_sensitive) ==
    IF case_sensitive THEN str_contains(haystack, needle)
    ELSE str_contains(to_lowercase(haystack), to_lowercase(needle))

\* usize::cmp
Cmp(a, b) == IF a < b THEN "Less" ELSE IF a > b THEN "Greater" ELSE "Equal"

\* fn closest_to_origin
closest_to_origin(origin, word_a, word_b) ==
    IF str_find(word_a, origin) = NoIndex THEN "Greater"
    ELSE IF str_find(word_b, origin) = NoIndex THEN "Less"
    ELSE Cmp(str_find(word_a, origin) + Len(word_a),
             str_find(word_b, origin) + Len(word_b))

RECURSIVE InsertTail(_, _, _)
\* the step of the insertion sort slice::sort_by uses on short slices: the
\* new element moves left while it compares Less than its neighbour
InsertTail(sorted, x, origin) ==
    IF sorted = <<>> THEN <<x>>
    ELSE IF closest_to_origin(origin, x.name, sorted[Len(sorted)].name) # "Less"
    THEN Append(sorted, x)
    ELSE Append(InsertTail(Take(sorted, Len(sorted) - 1), x, origin),
                sorted[Len(sorted)])

RECURSIVE sort_by(_, _)
\* members.sort_by(|a, b| closest_to_origin(origin, a.1, b.1))
sort_by(v, origin) ==
    IF v = <<>> THEN <<>>
    ELSE InsertTail(sort_by(Take(v, Len(v) - 1), origin), v[Len(v)], origin)

\* the filter_map closure of each of the four searches: the name the member
\* is found by, or None
FoundBy(search, member, substring, case_sensitive) ==
    CASE search = "members_starting_with" ->
            IF starts_with(member.name, substring, case_sensitive)
            THEN member.name
            ELSE IF /\ member.nick # NoNick
                    /\ starts_with(member.nick, substring, case_sensitive)
            THEN member.nick
            ELSE NoName
      [] search = "members_containing" ->
            IF contains(member.name, substring, case_sensitive)
            THEN member.name
            ELSE IF /\ member.nick # NoNick
                    /\ contains(member.nick, substring, case_sensitive)
            THEN member.nick
            ELSE NoName
      [] search = "members_username_containing" ->
            IF contains(member.name, substring, case_sensitive)
            THEN member.name
            ELSE NoName
      [] search = "members_nick_containing" ->
            IF contains(IF member.nick = NoNick THEN member.name ELSE member.nick,
                        substring, case_sensitive)
            THEN IF member.nick = NoNick THEN member.name ELSE member.nick
            ELSE NoName

RECURSIVE Collect(_, _, _, _, _)
\* self.members.iter().filter_map(..).collect(): the members found, each
\* with its index in the cache and the name it was found by
Collect(search, members, i, substring, case_sensitive) ==
    IF i > Len(members) THEN <<>>
    ELSE IF FoundBy(search, members[i], substring, case_sensitive) = NoName
    THEN Collect(search, members, i + 1, substring, case_sensitive)
    ELSE <<[member |-> i,
            name |-> FoundBy(search, members[i], substring, case_sensitive)]>>
            \o Collect(search, members, i + 1, substring, case_sensitive)

\* the body the four searches share
members_search(search, members, substring, case_sensitive, sorted) ==
    IF sorted
    THEN sort_by(Collect(search, members, 1, substring, case_sensitive), substring)
    ELSE Collect(search, members, 1, substring, case_sensitive)

members_starting_with(members, prefix, case_sensitive, sorted) ==
    members_search("members_starting_with", members, prefix, case_sensitive, sorted)

members_containing(members, substring, case_sensitive, sorted) ==
    members_search("members_containing", members, substring, case_sensitive, sorted)

members_username_containing(members, substring, case_sensitive, sorted) ==
    members_search("members_username_containing", members, substring, case_sensitive, sorted)

members_nick_containing(members, substring, case_sensitive, sorted) ==
    members_search("members_nick_containing", members, substring, case_sensitive, sorted)

InitSearch ==
    /\ GatewayIdle
    /\ \E members \in BSeq(SearchedMembers, MaxSearched),
          substring \in SearchStrings,
          case_sensitive \in BOOLEAN, sorted \in BOOLEAN :
           call = [fn |-> "guild", members |-> members, substring |-> substring,
                   case_sensitive |-> case_sensitive, sorted |-> sorted,
                   ret |-> <<>>]

\* guild.members_starting_with(prefix, case_sensitive, sorted)
MembersStartingWith ==
    /\ call.fn = "guild"
    /\ call' = [call EXCEPT
                  !.fn = "members_starting_with",
                  !.ret = members_starting_with(call.members, call.substring,
                                                call.case_sensitive, call.sorted)]
    /\ UNCHANGED gateway

\* guild.members_containing(substring, case_sensitive, sorted)
MembersContaining ==
    /\ call.fn = "guild"
    /\ call' = [call EXCEPT
                  !.fn = "members_containing",
                  !.ret = members_containing(call.members, call.substring,
                                             call.case_sensitive, call.sorted)]
    /\ UNCHANGED gateway

\* guild.members_username_containing(substring, case_sensitive, sorted)
MembersUsernameContaining ==
    /\ call.fn = "guild"
    /\ call' = [call EXCEPT
                  !.fn = "members_username_containing",
                  !.ret = members_username_containing(call.members, call.substring,
                                                      call.case_sensitive, call.sorted)]
    /\ UNCHANGED gateway

\* guild.members_nick_containing(substring, case_sensitive, sorted)
MembersNickContaining ==
    /\ call.fn = "guild"
    /\ call' = [call EXCEPT
                  !.fn = "members_nick_containing",
                  !.ret = members_nick_containing(call.members, call.substring,
                                                  call.case_sensitive, call.sorted)]
    /\ UNCHANGED gateway

NextSearch ==
    \/ MembersStartingWith
    \/ MembersContaining
    \/ MembersUsernameContaining
    \/ MembersNickContaining

SpecSearch == InitSearch /\ [][NextSearch]_vars

\* ================================================================ properties
RECURSIVE Plain(_)
\* what a compressed byte string stands for: the decompression of the whole
\* string in one piece, with no bound on the output
Plain(bytes) ==
    IF bytes = <<>> THEN <<>>
    ELSE Canon(Run(Head(bytes), RunLen(Head(bytes))) \o Plain(Tail(bytes)))

\* the last operation was a recv_json that pulled a binary frame
RecvdBinary == last.op = "recv_json" /\ last.pulled.kind = "Binary"

\* this step is a recv_json that pulls a frame from the socket
RecvPull == inbox # <<>> /\ inbox' = Tail(inbox) /\ last'.op = "recv_json"

\* C1: in Zlib mode, when a valid message (ending with the marker) arrives in
\* chunks, every call but the last returns Ok(None) and the last call returns
\* the decompression of the whole message.
C1_ZlibChunksReassemble ==
    (requested = "Zlib" /\ hist.valid /\ RecvdBinary) =>
        IF last.pulled.fin
        THEN last.codec = OkSome(Plain(last.pulled.msg))
        ELSE last.codec = OkNone

\* in Zlib mode the accumulation buffer is the concatenation of the slices fed
\* since the last call that returned Some
ZlibBufferIsWhatWasFed ==
    requested = "Zlib" => compression.compressed = hist.fed

\* C2: in Zlib mode the buffer holds exactly the slices fed since the last
\* call that returned Some; a call on a message whose marker is withheld
\* returns Ok(None) and keeps the bytes; feeding the rest with the marker
\* yields the full message and empties the buffer.
C2_ZlibRetention ==
    /\ ZlibBufferIsWhatWasFed
    /\ (requested = "Zlib" /\ hist.valid /\ RecvdBinary) =>
          /\ ~last.pulled.fin =>
                /\ last.codec.tag = "None"
                /\ compression.compressed # last.pulled.msg
                /\ compression.compressed =
                       Take(last.pulled.msg, Len(compression.compressed))
          /\ last.pulled.fin =>
                /\ last.codec.tag = "Some"
                /\ last.codec.out = Plain(last.pulled.msg)
                /\ compression.compressed = <<>>

\* some decode step reported no error and left the input position where it
\* was while input was still unread
Stalled(steps, length) ==
    \E i \in 1..Len(steps) :
        steps[i].ok /\ steps[i].after = steps[i].before /\ steps[i].after < length

\* C3: in Zstd mode, when a decode step reports no error, does not advance the
\* input position and unread input remains, inflate returns
\* DecompressZstdCorrupted: not DecompressZstd, not Ok.
C3_ZstdStallIsCorrupted ==
    (requested = "Zstd" /\ RecvdBinary
        /\ Stalled(last.steps, Len(last.pulled.bytes))) =>
        last.codec = Failure("DecompressZstdCorrupted", 0)

\* C3, the case: a stalled step with unread input, reported as corrupted
C3_Witness ==
    /\ requested = "Zstd" /\ RecvdBinary
    /\ Stalled(last.steps, Len(last.pulled.bytes))
    /\ last.res = Err("DecompressZstdCorrupted")

\* the last call fed a valid but incomplete part of a zstd frame: every step
\* succeeded, the decoder consumed all the input and still asks for more
ZstdIncomplete ==
    /\ requested = "Zstd" /\ RecvdBinary
    /\ last.steps # <<>>
    /\ \A i \in 1..Len(last.steps) : last.steps[i].ok
    /\ last.steps[Len(last.steps)].val > 0
    /\ last.steps[Len(last.steps)].after = Len(last.pulled.bytes)

C5_TimeoutIsNoEvent ==
    [][(last' # last /\ last'.op = "recv_json" /\ last'.how = "timeout") =>
          /\ last'.res = NoEvent
          /\ ~ended'
          /\ UNCHANGED <<requested, compression, inbox, ended, txClosed, wire, hist>>
      ]_vars

\* C5, the case: a call timed out, the stream is open and the next frame is
\* there for the next call
C5_Witness ==
    /\ last.op = "recv_json" /\ last.how = "timeout"
    /\ ~ended
    /\ inbox # <<>> /\ Head(inbox).kind = "Text"

\* C6: recv_json on a close frame, with or without a payload, returns the
\* Closed error.
C6_CloseIsClosedError ==
    (last.op = "recv_json" /\ last.pulled.kind \in {"CloseSome", "CloseNone"}) =>
        last.res = Err("Closed")

\* the errors of decompression and of JSON parsing
DecodeErrors ==
    {"Io", "DecompressZlib", "DecompressZstd", "DecompressZstdCorrupted", "Json"}

\* C7: a decompression or JSON failure found while handling a frame is
\* returned as Err by that same call; the call pulls exactly that one frame,
\* runs the codec once on it, and leaves the socket open.
C7_ErrorsSurface ==
    [][RecvPull =>
          LET m == Head(inbox) IN
          /\ last'.pulled = m
          /\ last'.codec.tag = "Err" => last'.res = Err(last'.codec.err)
          /\ (m.kind = "Text" /\ ~from_slice(m.text).ok) => last'.res = Err("Json")
          /\ (last'.codec.tag = "Some" /\ ~from_slice(last'.codec.out).ok) =>
                 last'.res = Err("Json")
          /\ (last'.res.tag = "Err" /\ last'.res.err \in DecodeErrors) =>
                 /\ m.kind \in {"Text", "Binary"}
                 /\ compression' = IF m.kind = "Binary"
                                   THEN inflate(compression, m.bytes).self
                                   ELSE compression
                 /\ ~ended'
                 /\ UNCHANGED <<txClosed, wire>>
      ]_vars

\* C7, the case: a call returned a decode error, the stream is open and the
\* next frame is there for the next call
C7_Witness ==
    /\ last.op = "recv_json"
    /\ last.res.tag = "Err" /\ last.res.err \in DecodeErrors
    /\ ~ended
    /\ inbox # <<>>

\* C8: in every mode and for every sequence of slices, a call returns Ok or a
\* typed error: no slice index is out of bounds, no subtraction underflows.
C8_NoPanic ==
    /\ last.codec.tag \in {"NotRun", "None", "Some", "Err"}
    /\ last.res.tag \in {"Ok", "NoEvent", "Event", "Err"}
    /\ BytesLen(last.codec.out) <= DECOMPRESSED_CAPACITY \/ requested = "None"
    /\ requested # "None" => BytesLen(compression.decompressed) = DECOMPRESSED_CAPACITY
    /\ requested = "Zlib" => compression.inflater.total_out >= 0

\* C8, the case: a Zlib call on a buffer shorter than the marker
C8_Witness ==
    /\ requested = "Zlib" /\ RecvdBinary
    /\ last.codec = OkNone
    /\ Len(compression.compressed) \in 1..3

\* C9: only a recv_json that pulls a binary frame changes the decompression
\* state; sends, close, next, text, ping, pong and close frames, and timeouts,
\* leave it as it is.
C9_OnlyBinaryTouchesCodec ==
    [][(RecvPull /\ Head(inbox).kind = "Binary") \/ compression' = compression]_vars

\* C9, the case: a text frame handled between the chunks of a message, the
\* bytes received so far still in the buffer
C9_Witness ==
    /\ requested = "Zlib"
    /\ last.op = "recv_json" /\ last.pulled.kind = "Text"
    /\ compression.compressed # <<>>
    /\ compression.compressed = hist.fed

\* C10: the codec variant is the one connect chose for the requested
\* transport (None: Payload, Zlib: Zlib, Zstd: Zstd), whatever happened since.
C10_VariantIsStable ==
    compression.variant = CASE requested = "None" -> "Payload"
                            [] requested = "Zlib" -> "Zlib"
                            [] requested = "Zstd" -> "Zstd"

\* C10, the case: a Zstd client after a failed decode and a send
C10_Witness ==
    /\ requested = "Zstd"
    /\ compression.variant = "Zstd"
    /\ compression.inflater.failed # 0
    /\ last.op = "send_heartbeat"


\* C11: the compress field of the Identify message is true exactly when the
\* connection was made with compression None (the Payload codec), whatever
\* was done before the call.
C11_IdentifyCompress ==
    last.op = "send_identify" =>
        /\ last.sent.op = "Identify"
        /\ last.sent.d.compress = (requested = "None")

\* C11, the case: an Identify sent by a Zlib client that holds half a message
C11_Witness ==
    /\ last.op = "send_identify"
    /\ requested = "Zlib"
    /\ compression.compressed # <<>>
    /\ ~last.sent.d.compress

\* C12: the member-chunk request carries query "" and no user_ids for the
\* filter None, the query and no user_ids for Query, the ids and no query for
\* UserIds: never both fields, never neither.
C12_ChunkFilterExclusive ==
    last.op = "send_chunk_guild" =>
        LET d == last.sent.d IN
        /\ last.sent.op = "RequestGuildMembers"
        /\ ("query" \in DOMAIN d) # ("user_ids" \in DOMAIN d)
        /\ last.how = "None" => "query" \in DOMAIN d /\ d.query = ""
        /\ last.how = "Query" => "query" \in DOMAIN d /\ d.query = "foo"
        /\ last.how = "UserIds" =>
               "user_ids" \in DOMAIN d /\ d.user_ids = <<1, 2, 3>>

\* C12, the case: a request by user ids
C12_Witness ==
    /\ last.op = "send_chunk_guild"
    /\ last.how = "UserIds"
    /\ "user_ids" \in DOMAIN last.sent.d
    /\ "query" \notin DOMAIN last.sent.d

\* the text recv_json parsed in the last call: the text frame's payload, or
\* what inflate returned
SourceText == IF last.pulled.kind = "Text" THEN last.pulled.text ELSE last.codec.out

\* C13: a Dispatch event returned by recv_json carries the received text
\* (after decompression, before parsing), cut to the capacity of the field
\* when longer; every other event carries no text.
C13_DispatchVerbatim ==
    (last.op = "recv_json" /\ last.res.tag = "Event") =>
        IF last.res.kind = "Dispatch"
        THEN last.res.original_str =
                 IF BytesLen(SourceText) <= 2147483647
                 THEN SourceText
                 ELSE TakeBytes(SourceText, 2147483647)
        ELSE last.res.original_str = <<>>

\* C13, the case: a Dispatch event decoded from a binary frame
C13_Witness ==
    /\ RecvdBinary
    /\ last.res.tag = "Event" /\ last.res.kind = "Dispatch"
    /\ last.res.original_str = last.codec.out
    /\ BytesLen(last.res.original_str) > 1


RECURSIVE Dots(_)
\* the number of '.' in a string
Dots(str) ==
    IF str = <<>> THEN 0
    ELSE (IF Head(str) = "." THEN 1 ELSE 0) + Dots(Tail(str))

\* exactly three parts separated by '.', none of them empty
ThreeParts(str) ==
    /\ Dots(str) = 2
    /\ str # <<>> /\ str[1] # "." /\ str[Len(str)] # "."
    /\ \A i \in 1..(Len(str) - 1) : ~(str[i] = "." /\ str[i + 1] = ".")

\* a string without one "Bot " or "Bearer " at its start, if there is one
WithoutOnePrefix(str) ==
    IF str # <<>> /\ Head(str) \in {"Bot ", "Bearer "} THEN Tail(str) ELSE str

RECURSIVE WithoutPrefixes(_, _)
\* a string without any of the given words at its start
WithoutPrefixes(str, words) ==
    IF str # <<>> /\ Head(str) \in words
    THEN WithoutPrefixes(Tail(str), words)
    ELSE str

\* the call of from_str has returned
Parsed == call.fn \in {"from_str", "expose_secret"} /\ call.ret # Pending

\* C14 as stated: from_str returns Ok exactly when the input, trimmed and
\* without an optional "Bot " or "Bearer " prefix, is three non-empty parts
\* separated by '.', and InvalidToken otherwise.
C14_TokenValidOnePrefix ==
    Parsed =>
        /\ call.ret.ok = ThreeParts(WithoutOnePrefix(Trim(call.s)))
        /\ ~call.ret.ok => call.ret.err = "InvalidToken"

\* C14, amended: from_str returns Ok exactly when the input, trimmed, then
\* without every "Bot " at its start, then without every "Bearer " at its
\* start, is three non-empty parts separated by '.', and InvalidToken otherwise.
C14_TokenValid ==
    Parsed =>
        /\ call.ret.ok =
               ThreeParts(WithoutPrefixes(WithoutPrefixes(Trim(call.s), {"Bot "}),
                                          {"Bearer "}))
        /\ ~call.ret.ok => call.ret.err = "InvalidToken"

\* C14, the case: a token with a prefix, and a space at its end, accepted
C14_Witness ==
    /\ Parsed
    /\ call.ret.ok
    /\ call.s[1] = "Bearer "
    /\ call.s[Len(call.s)] = "Bot "

\* C15: the secret of an accepted token is "Bot " followed by the bare token,
\* whether the input had no prefix, "Bot " or "Bearer ".
C15_TokenStoredWithBot ==
    (Parsed /\ call.ret.ok) =>
        /\ call.ret.secret.prefix = "Bot "
        /\ call.ret.secret.text =
               WithoutPrefixes(WithoutPrefixes(Trim(call.s), {"Bot "}), {"Bearer "})
        /\ call.ret.secret.len = StrLen(call.ret.secret.text)

\* the last operation compared two users of the guild
Compared ==
    call.fn \in {"Guild::greater_member_hierarchy",
                 "PartialGuild::greater_member_hierarchy"}

\* the roles of a cached member that the guild has
KnownRoles(guild, id) ==
    {guild.members[id][i] : i \in DOMAIN guild.members[id]}
        \cap DOMAIN guild.roles

\* the highest of them: the greatest position and, among the roles at that
\* position, the lowest id; NoRole when the member has none
TopRole(guild, id) ==
    IF KnownRoles(guild, id) = {} THEN NoRole
    ELSE LET top == CHOOSE t \in KnownRoles(guild, id) :
                        \A q \in KnownRoles(guild, id) :
                            \/ guild.roles[t] > guild.roles[q]
                            \/ guild.roles[t] = guild.roles[q] /\ t <= q
         IN  [id |-> top, position |-> guild.roles[top]]

\* two distinct cached members, neither of them the owner
TwoPlainMembers ==
    /\ Compared
    /\ call.lhs # call.rhs
    /\ {call.lhs, call.rhs} \subseteq DOMAIN call.guild.members
    /\ call.guild.owner_id \notin {call.lhs, call.rhs}

\* the answers that do not depend on the roles: None for one user given
\* twice or a user without a cached member, else the owner if it is one of
\* the two; and the same answer when the two arguments are exchanged
HierarchyWithoutRoles ==
    /\ call.lhs = call.rhs => call.ret = NoUser
    /\ ~({call.lhs, call.rhs} \subseteq DOMAIN call.guild.members)
           => call.ret = NoUser
    /\ (/\ call.lhs # call.rhs
        /\ {call.lhs, call.rhs} \subseteq DOMAIN call.guild.members
        /\ call.guild.owner_id \in {call.lhs, call.rhs})
           => call.ret = call.guild.owner_id
    /\ call.ret = greater_member_hierarchy(call.guild, call.rhs, call.lhs)

\* of two roles, the user of the one with the greater position, or on equal
\* positions of the one with the lower id
ByPositionThenId(l, r) ==
    IF l.position > r.position THEN call.lhs
    ELSE IF r.position > l.position THEN call.rhs
    ELSE IF l.id < r.id THEN call.lhs ELSE call.rhs

\* C16 as stated: greater_member_hierarchy returns None when the two ids are
\* equal, when a member is absent or when the two members have the same
\* highest role; otherwise the owner's id if one of the two is the owner, else
\* the id of the member whose highest role has the greater position and, on
\* equal positions, the lower role id; exchanging the arguments does not
\* change the result.  (Nothing is required here of a member without roles.)
C16_HierarchyByPosition ==
    Compared =>
        /\ HierarchyWithoutRoles
        /\ (/\ TwoPlainMembers
            /\ TopRole(call.guild, call.lhs) # NoRole
            /\ TopRole(call.guild, call.rhs) # NoRole)
               => call.ret =
                      IF TopRole(call.guild, call.lhs).id
                             = TopRole(call.guild, call.rhs).id
                      THEN NoUser
                      ELSE ByPositionThenId(TopRole(call.guild, call.lhs),
                                            TopRole(call.guild, call.rhs))

\* the highest role as the comparison sees it: a member without roles counts
\* as having the role of id 1 at position 0
Standing(guild, id) ==
    IF TopRole(guild, id) = NoRole THEN [id |-> 1, position |-> 0]
    ELSE TopRole(guild, id)

\* C16, amended: as above, where for two members that are not the owner the
\* result is None exactly when both highest positions are 0 or both highest
\* roles have the same id, a member without roles counting as position 0 with
\* role id 1; in every other case the greater position wins and, on equal
\* positions, the lower role id.
C16_Hierarchy ==
    Compared =>
        /\ HierarchyWithoutRoles
        /\ TwoPlainMembers
               => call.ret =
                      IF \/ /\ Standing(call.guild, call.lhs).position = 0
                            /\ Standing(call.guild, call.rhs).position = 0
                         \/ Standing(call.guild, call.lhs).id
                                = Standing(call.guild, call.rhs).id
                      THEN NoUser
                      ELSE ByPositionThenId(Standing(call.guild, call.lhs),
                                            Standing(call.guild, call.rhs))

\* C16, the case: two members that are not the owner, whose highest roles
\* differ and share a position other than 0; the one with the lower role id
\* is returned
C16_Witness ==
    /\ TwoPlainMembers
    /\ TopRole(call.guild, call.lhs).position
           = TopRole(call.guild, call.rhs).position
    /\ TopRole(call.guild, call.lhs).position # 0
    /\ TopRole(call.guild, call.lhs).id > TopRole(call.guild, call.rhs).id
    /\ TopRole(call.guild, call.rhs) # NoRole
    /\ call.ret = call.rhs

\* the methods of GuildChannel that are for stage channels only
StageOnly ==
    {"edit_voice_state", "get_stage_instance", "create_stage_instance",
     "edit_stage_instance", "delete_stage_instance"}

\* the last call returned ModelError::InvalidChannelType and sent nothing
Refused == call.sent = <<>> /\ call.ret = InvalidChannelType.ret

\* the last call sent one request, on its own route, and returned the answer
Forwarded(route) ==
    /\ Len(call.sent) = 1
    /\ call.sent[1].route = route
    /\ call.ret = call.response

Tagged == parse_user_tag(call.name).some

\* the members that match the name by their username, and by their
\* discriminator when the name is tagged
UsernameMatches ==
    {i \in DOMAIN call.members :
        IF Tagged
        THEN /\ call.members[i].name = parse_user_tag(call.name).name
             /\ call.members[i].discriminator
                    = parse_user_tag(call.name).discrim
        ELSE call.members[i].name = call.name}

\* the members whose nickname is the whole name
NickMatches ==
    {i \in DOMAIN call.members :
        call.members[i].nick # NoNick /\ call.members[i].nick = call.name}

\* the first of a set of members, in the order of the cache
First(S) == CHOOSE i \in S : \A j \in S : i <= j

C19_OwnVoiceStateGuard ==
    (call.fn = "edit_own_voice_state" /\ call.self.kind # "Stage") => Refused

\* C20: create_webhook returns ModelError::InvalidChannelType, and sends no
\* request, whenever the kind of the channel is neither Text nor News.
C20_WebhookGuard ==
    (call.fn = "create_webhook" /\ call.self.kind \notin {"Text", "News"})
        => Refused

\* the five operations that send a gateway message, and their opcodes
OutboundKinds ==
    [send_heartbeat |-> "Heartbeat", send_identify |-> "Identify",
     send_presence_update |-> "PresenceUpdate", send_resume |-> "Resume",
     send_chunk_guild |-> "RequestGuildMembers"]

\* the member of a JSON object with this key
Field(obj, key) ==
    obj.members[CHOOSE i \in DOMAIN obj.members : obj.members[i].key = key].value

HasField(obj, key) == \E i \in DOMAIN obj.members : obj.members[i].key = key

\* the opcode a number stands for
OpcodeOf(n) ==
    CASE n = 1 -> "Heartbeat"
      [] n = 2 -> "Identify"
      [] n = 3 -> "PresenceUpdate"
      [] n = 6 -> "Resume"
      [] n = 8 -> "RequestGuildMembers"
      [] OTHER -> "Unknown"

DecodePresence(j) ==
    [afk |-> Field(j, "afk").b, status |-> Field(j, "status").s,
     since |-> Field(j, "since").s,
     activities |-> [i \in DOMAIN Field(j, "activities").items |->
                        Field(j, "activities").items[i].s]]

DecodeIdentify(j) ==
    [compress |-> Field(j, "compress").b, token |-> Field(j, "token").s,
     large_threshold |-> Field(j, "large_threshold").s,
     shard |-> Field(j, "shard").s,
     intents |-> Field(j, "intents").s,
     properties |-> [browser |-> Field(Field(j, "properties"), "browser").s,
                     device |-> Field(Field(j, "properties"), "device").s,
                     os |-> Field(Field(j, "properties"), "os").s],
     presence |-> DecodePresence(Field(j, "presence"))]

DecodeResume(j) ==
    [seq |-> Field(j, "seq").n, token |-> Field(j, "token").s,
     session_id |-> Field(j, "session_id").s]

\* a member that is not written is a field that is None
DecodeChunkGuild(j) ==
    LET ids == IF HasField(j, "user_ids")
               THEN [i \in DOMAIN Field(j, "user_ids").items |->
                        Field(j, "user_ids").items[i].n]
               ELSE <<>>
    IN  ChunkGuildMessage(Field(j, "guild_id").n,
            IF HasField(j, "query") THEN <<Field(j, "query").s>> ELSE <<>>,
            Field(j, "limit").n, Field(j, "presences").b,
            IF HasField(j, "user_ids") THEN <<ids>> ELSE <<>>,
            Field(j, "nonce").s)

\* the reading of an envelope {op, d}: the opcode, and d read as the opcode
\* says
DecodeEnvelope(text) ==
    LET op == OpcodeOf(Field(text, "op").n)
        d == Field(text, "d")
    IN  [d |-> CASE op = "Heartbeat" ->
                        IF d.t = "null" THEN <<>> ELSE <<d.n>>
                 [] op = "Identify" -> DecodeIdentify(d)
                 [] op = "PresenceUpdate" -> DecodePresence(d)
                 [] op = "Resume" -> DecodeResume(d)
                 [] op = "RequestGuildMembers" -> DecodeChunkGuild(d)
                 [] OTHER -> <<>>,
         op |-> op]

\* C21: for each of the five outbound kinds, reading back the envelope that
\* the send operation wrote gives the opcode of the kind and the field values
\* of d that the operation built (Heartbeat: the sequence number or null;
\* Resume: session_id, token, seq).
C21_OutboundRoundTrip ==
    last.op \in DOMAIN OutboundKinds =>
        /\ last.sent.op = OutboundKinds[last.op]
        /\ DecodeEnvelope(last.sent.text).op = last.sent.op
        /\ DecodeEnvelope(last.sent.text).d = last.sent.d

\* C21, the case: a heartbeat without a sequence number, written as null
C21_Witness ==
    /\ last.op = "send_heartbeat"
    /\ last.sent.d = <<>>
    /\ Field(last.sent.text, "d") = JNull
    /\ DecodeEnvelope(last.sent.text).d = <<>>

\* the step is a recv_json that pulls a binary frame while the codec is `variant`
RecvsBinary(variant) ==
    /\ compression.variant = variant
    /\ ~ended
    /\ inbox # <<>>
    /\ Head(inbox).kind = "Binary"
    /\ inbox' = Tail(inbox)
    /\ last'.op = "recv_json"

\* the Zlib buffer with the frame appended is no complete message: it has
\* fewer than 4 bytes or does not end with 00 00 FF FF
ZlibIncomplete(buffer) ==
    \/ Len(buffer) < 4
    \/ SubSeq(buffer, Len(buffer) - 3, Len(buffer)) # ZLIB_SUFFIX

\* C22: a Zlib call whose accumulated bytes are no complete message returns
\* Ok(None), appends the frame to the buffer and does not run the inflate
\* context: total_out, and the whole context, are as before the call.
C22_ZlibIncompleteInert ==
    [][(RecvsBinary("Zlib") /\ ZlibIncomplete(compression.compressed \o Head(inbox).bytes))
        => /\ last'.codec = OkNone
           /\ last'.res = NoEvent
           /\ compression'.compressed = compression.compressed \o Head(inbox).bytes
           /\ compression'.inflater = compression.inflater
           /\ compression'.decompressed = compression.decompressed]_vars

\* C22, the case: after a first message was decoded, four or more bytes of the
\* next one are held back because they do not end with the marker
C22_Witness ==
    /\ compression.variant = "Zlib"
    /\ last.op = "recv_json"
    /\ last.pulled.kind = "Binary"
    /\ last.codec = OkNone
    /\ Len(compression.compressed) >= 4
    /\ ZlibIncomplete(compression.compressed)
    /\ compression.inflater.total_out > 0

\* how many of the accumulated bytes the inflate context takes in the decode
\* this step makes: the buffer with the frame appended, the 64 KiB scratch
ZlibConsumed ==
    ZlibDecompress(compression.inflater, compression.compressed \o Head(inbox).bytes,
                   DECOMPRESSED_CAPACITY).consumed

\* C23: in Zlib mode, whenever a call clears the accumulation buffer and
\* returns Some, the inflate context has consumed every accumulated byte and
\* the slice returned is the complete decompressed message, also for a message
\* larger than the 64 KiB scratch buffer.
C23_ZlibClearLosesNothing ==
    [][(RecvsBinary("Zlib") /\ last'.codec.tag = "Some" /\ compression'.compressed = <<>>)
        => /\ ZlibConsumed = Len(compression.compressed \o Head(inbox).bytes)
           /\ last'.codec.out = Plain(Head(inbox).msg)]_vars

\* the last operation ran the Zstd arm on a binary frame
RecvdZstd == requested = "Zstd" /\ RecvdBinary

\* the decode steps of the last call but the final one: the iterations after
\* which the loop went on
Continuing == 1..(Len(last.steps) - 1)

\* C24: within one Zstd call the processed position strictly increases on
\* every iteration that continues the loop and never exceeds the input
\* length; the loop ends after at most length + 1 decode steps, on a step that
\* failed (DecompressZstd), that ended the frame (the message), that did not
\* advance with all input read (more input needed) or that did not advance
\* with input left (DecompressZstdCorrupted).
C24_ZstdLoopTerminates ==
    RecvdZstd =>
        LET steps == last.steps
            length == Len(last.pulled.bytes)
            final == steps[Len(steps)]
        IN  /\ Len(steps) >= 1
            /\ Len(steps) <= length + 1
            /\ steps[1].before = 0
            /\ \A i \in 1..Len(steps) :
                  /\ steps[i].before <= steps[i].after
                  /\ steps[i].after <= length
            /\ \A i \in Continuing :
                  /\ steps[i].ok /\ steps[i].val # 0
                  /\ steps[i].after > steps[i].before
                  /\ steps[i + 1].before = steps[i].after
            /\ IF ~final.ok
               THEN last.codec = Failure("DecompressZstd", final.val)
               ELSE IF final.val = 0
               THEN last.codec.tag = "Some"
               ELSE /\ final.after = final.before
                    /\ IF final.after = length
                       THEN last.codec.tag = "Some"
                       ELSE last.codec = Failure("DecompressZstdCorrupted", 0)

\* C24, the case: a call that needs every step it may take, length + 1 of
\* them, the last one finding all input read
C24_Witness ==
    /\ RecvdZstd
    /\ Len(last.pulled.bytes) >= 1
    /\ Len(last.steps) = Len(last.pulled.bytes) + 1
    /\ last.steps[1].after > last.steps[1].before
    /\ last.codec.tag = "Some"

\* C25: in Zstd mode, inflate never returns DecompressZstdCorrupted for a
\* valid stream, also when the output of a valid frame fills the 64 KiB
\* scratch buffer before all input is consumed.
C25_ZstdCorruptedOnlyIfCorrupt ==
    (RecvdZstd /\ hist.valid) => last.codec # Failure("DecompressZstdCorrupted", 0)

\* the last call returned the result of a parse: an event or a JSON error
ParseResult == last.res.tag = "Event" \/ last.res = Err("Json")

\* of the binary frames that carry one valid message in the given mode, each
\* frame before the last yields "no event" and the last one a parse result
OneEventPerMessage(mode) ==
    (requested = mode /\ hist.valid /\ RecvdBinary) =>
        IF last.pulled.fin THEN ParseResult ELSE last.res = NoEvent

\* in every mode "incomplete" from the codec is "no event" from recv_json, and
\* a payload from the codec is parsed
CodecReportIsFollowed ==
    RecvdBinary =>
        /\ last.codec.tag = "None" => last.res = NoEvent
        /\ last.codec.tag = "Some" => ParseResult

\* C26: in a streaming mode (Zlib, Zstd), of the binary frames that carry one
\* message, recv_json returns "no event" for each frame the codec reports
\* incomplete and exactly one parse result, for the frame that completes the
\* message: no message is delivered twice, none is skipped.
C26_OneEventPerMessage ==
    /\ CodecReportIsFollowed
    /\ OneEventPerMessage("Zlib")
    /\ OneEventPerMessage("Zstd")

\* C27: in Zstd mode, when a decode step reports a failure code, that step is
\* the last of the call and the call returns DecompressZstd with that code:
\* not DecompressZstdCorrupted, not Ok.
C27_ZstdFailureTyped ==
    RecvdZstd =>
        \A i \in 1..Len(last.steps) :
            ~last.steps[i].ok =>
                /\ i = Len(last.steps)
                /\ last.steps[i].val # 0
                /\ last.codec.tag = "Err"
                /\ last.codec.err = "DecompressZstd"
                /\ last.codec.code = last.steps[i].val
                /\ last.res = Err("DecompressZstd")

\* C27, the case: a frame with valid bytes before the one the decoder rejects
\* as corrupt (code 20)
C27_Witness ==
    /\ RecvdZstd
    /\ Len(last.pulled.bytes) >= 2
    /\ Len(last.steps) = 1
    /\ ~last.steps[1].ok
    /\ last.codec.err = "DecompressZstd"
    /\ last.codec.code = 20

\* a frame that is a complete zlib stream of its own: codes, then the end of
\* the stream
ValidFrame(bytes) ==
    /\ bytes # <<>>
    /\ bytes[Len(bytes)] = 4
    /\ \A i \in 1..(Len(bytes) - 1) : bytes[i] \in {1, 2}

\* C28: in the None (Payload) mode, inflate of a valid frame returns Some, and
\* what it returns is determined by that frame alone: it is the decompression
\* of the frame, which is also what a connection that has inflated nothing yet
\* returns, whatever frames, valid or failing, were inflated before.
C28_PayloadHistoryIndependent ==
    (requested = "None" /\ RecvdBinary /\ ValidFrame(last.pulled.bytes)) =>
        /\ last.codec = OkSome(Plain(last.pulled.bytes))
        /\ last.codec = inflate(CompressionFrom("None"), last.pulled.bytes).res
        /\ compression.decompressed = last.codec.out

\* C28, the case: the second message of a connection, cut in two frames: the
\* first frame failed for want of the end of the stream, the second is a valid
\* frame of its own with some output
C28_Witness ==
    /\ requested = "None" /\ RecvdBinary
    /\ wire.left = 0
    /\ last.pulled.msg = wire.msg
    /\ last.pulled.fin
    /\ last.pulled.bytes # last.pulled.msg
    /\ ValidFrame(last.pulled.bytes)
    /\ last.codec.tag = "Some"
    /\ last.codec.out # <<>>

\* the Zlib buffer as this step's call makes it: the frame appended
Extended == compression.compressed \o Head(inbox).bytes

\* this step's call runs the inflate context over the whole extended buffer:
\* the context and the result are those of that one decode
RunsOverWholeBuffer ==
    LET Ran(d) ==
            /\ compression'.inflater = d.inflater
            /\ d.err => last'.codec = Failure("DecompressZlib", 0)
            /\ ~d.err => last'.codec.tag = "Some"
    IN  Ran(ZlibDecompress(compression.inflater, Extended, DECOMPRESSED_CAPACITY))

\* a Zlib call that returns DecompressZlib leaves in the buffer every byte
\* accumulated, the bytes of this frame included
ErrorKeepsBuffer ==
    (RecvsBinary("Zlib") /\ last'.codec.tag = "Err") =>
        /\ last'.codec = Failure("DecompressZlib", 0)
        /\ compression'.inflater.failed
        /\ compression'.compressed = Extended
        /\ compression'.compressed # <<>>

\* C29, as stated: after a Zlib call has returned DecompressZlib the buffer
\* still holds every accumulated byte, and the next call appends its slice to
\* them and re-runs the inflate context over the whole buffer.
C29_ZlibErrorThenRerun ==
    [][/\ ErrorKeepsBuffer
       /\ (RecvsBinary("Zlib") /\ compression.inflater.failed) =>
             /\ compression.compressed # <<>>
             /\ compression'.compressed = Extended
             /\ RunsOverWholeBuffer]_vars

\* C29, amended: after a Zlib call has returned DecompressZlib the buffer
\* still holds every accumulated byte; the next call appends its slice to
\* them and, when the buffer then ends with the marker, re-runs the inflate
\* context over the whole buffer; otherwise it returns Ok(None) without
\* running the context.
C29_ZlibErrorKeepsBuffer ==
    [][/\ ErrorKeepsBuffer
       /\ (RecvsBinary("Zlib") /\ compression.inflater.failed) =>
             /\ compression.compressed # <<>>
             /\ compression'.compressed = Extended
             /\ IF ZlibIncomplete(Extended)
                THEN /\ last'.codec = OkNone
                     /\ compression'.inflater = compression.inflater
                ELSE RunsOverWholeBuffer]_vars

\* C29, the case: a message failed, and the call that completes the next
\* message ran over a buffer that still holds the failing bytes before it
C29_Witness ==
    /\ requested = "Zlib" /\ RecvdBinary
    /\ compression.inflater.failed
    /\ last.codec = Failure("DecompressZlib", 0)
    /\ wire.left = 0
    /\ last.pulled.msg = wire.msg
    /\ last.pulled.fin
    /\ Len(compression.compressed) > Len(last.pulled.msg)

\* C30: once the stream has ended it stays ended, and every recv_json call
\* returns Ok(None), which is what a timeout returns, never an error, and
\* changes nothing; a close frame without payload, a ping and a pong also
\* yield Ok(None).
C30_EndIsNoEvent ==
    [][/\ ended => ended'
       /\ (ended /\ last'.op = "recv_json" /\ last' # last) =>
             /\ last'.res = NoEvent
             /\ last'.res = OnElapsed
             /\ last'.pulled = NoFrame
             /\ UNCHANGED <<requested, compression, inbox, ended, txClosed, wire, hist>>
       /\ (RecvPull /\ Head(inbox).kind \in {"CloseNone", "Ping", "Pong"}) =>
             /\ last'.res = NoEvent
             /\ compression' = compression]_vars

\* C30, the case: the server has closed, the stream has ended, and a
\* recv_json after the end returned "no event"
C30_Witness ==
    /\ ended
    /\ ~wire.open
    /\ ~txClosed
    /\ last.op = "recv_json" /\ last.how = "ended"
    /\ last.res = NoEvent

\* permissions were calculated for call.member in call.channel
Calculated ==
    call.fn \in {"Guild::user_permissions_in", "PartialGuild::user_permissions_in"}

\* the role ids the member holds
HeldRoles == {call.member.roles[i] : i \in DOMAIN call.member.roles}

\* the union of the permissions of @everyone and of the member's roles
BasePermissions ==
    UNION {call.guild.roles[r] :
              r \in (HeldRoles \cup {call.guild.id}) \cap DOMAIN call.guild.roles}

\* the overwrites of the channel
ChannelOverwrites ==
    {call.channel.permission_overwrites[i] :
        i \in DOMAIN call.channel.permission_overwrites}

\* the overwrites for @everyone, for the roles the member holds, for the member
EveryoneOverwrites ==
    {o \in ChannelOverwrites : o.kind = "Role" /\ o.id = call.guild.id}

RoleOverwrites ==
    {o \in ChannelOverwrites :
        o.kind = "Role" /\ o.id # call.guild.id /\ o.id \in HeldRoles}

MemberOverwrites ==
    {o \in ChannelOverwrites : o.kind = "Member" /\ o.id = call.member.id}

Allowed(overwrites) == UNION {o.allow : o \in overwrites}

Denied(overwrites) == UNION {o.deny : o \in overwrites}

IsGuildOwner == call.member.id = call.guild.owner_id

\* C31: the permissions of the guild owner are Permissions::all(), and so are
\* those of a member whose @everyone and role permissions together contain
\* ADMINISTRATOR; no overwrite of the channel, deny or allow, changes that.
C31_OwnerAndAdministrator ==
    (Calculated /\ (IsGuildOwner \/ ADMINISTRATOR \in BasePermissions)) =>
        call.ret = Permissions_all

\* C31, the case: an administrator by a role, not the owner, in a channel
\* that denies a flag to @everyone and to the member
C31_Witness ==
    /\ Calculated
    /\ ~IsGuildOwner
    /\ ADMINISTRATOR \in BasePermissions
    /\ ADMINISTRATOR \notin RolePermissions(call.guild.roles, call.guild.id)
    /\ Denied(EveryoneOverwrites) # {}
    /\ Denied(MemberOverwrites) # {}
    /\ Allowed(MemberOverwrites) = {}
    /\ call.ret = Permissions_all

\* C32: for a member who is neither owner nor administrator the permissions
\* are ((((((base & ~everyone_deny) | everyone_allow) & ~roles_deny) |
\* roles_allow) & ~member_deny) | member_allow): an allow for the member wins
\* over every deny, an allow for a role over the deny for another role.
C32_OverwritePrecedence ==
    (Calculated /\ ~IsGuildOwner /\ ADMINISTRATOR \notin BasePermissions) =>
        /\ call.ret =
              ((((((BasePermissions \ Denied(EveryoneOverwrites))
                      \cup Allowed(EveryoneOverwrites))
                     \ Denied(RoleOverwrites))
                    \cup Allowed(RoleOverwrites))
                   \ Denied(MemberOverwrites))
                  \cup Allowed(MemberOverwrites))
        /\ Allowed(MemberOverwrites) \subseteq call.ret
        /\ (Allowed(RoleOverwrites) \ Denied(MemberOverwrites)) \subseteq call.ret

\* C32, the case: the member holds two roles, the channel denies a flag to
\* one and allows it to the other, and the member has the flag
C32_Witness ==
    /\ Calculated
    /\ ~IsGuildOwner
    /\ ADMINISTRATOR \notin BasePermissions
    /\ MemberOverwrites = {}
    /\ \E deny \in RoleOverwrites, allow \in RoleOverwrites :
          /\ deny.id # allow.id
          /\ \E flag \in ChannelFlags :
                /\ flag \in deny.deny /\ flag \notin deny.allow
                /\ flag \in allow.allow /\ flag \notin allow.deny
                /\ flag \notin BasePermissions
                /\ flag \in call.ret

\* member_highest_role was called for call.member
HighestAsked ==
    call.fn \in {"Guild::member_highest_role",
                 "PartialGuild::member_highest_role"}

\* the roles of the member that the guild has, as a set
PresentRoles ==
    {call.member.roles[i] : i \in DOMAIN call.member.roles}
        \cap DOMAIN call.guild.roles

\* role t is at least as high as role q: a greater position, or the same
\* position and an id that is not greater
AtLeastAsHigh(roles, t, q) ==
    \/ roles[t] > roles[q]
    \/ roles[t] = roles[q] /\ t <= q

\* C33: member_highest_role is None when the guild has none of the member's
\* role ids; otherwise it is the role of greatest position among the present
\* ones and, at equal positions, of lowest id, whatever the order (and the
\* repetitions) of member.roles.
C33_HighestRole ==
    HighestAsked =>
        IF PresentRoles = {} THEN call.ret = NoRole
        ELSE /\ call.ret.id \in PresentRoles
             /\ call.ret.position = call.guild.roles[call.ret.id]
             /\ \A q \in PresentRoles :
                   AtLeastAsHigh(call.guild.roles, call.ret.id, q)

\* C33, the case: three present roles, the two highest at the same position,
\* the one of lowest id listed last and after the one of greater id
C33_Witness ==
    /\ HighestAsked
    /\ Len(call.member.roles) = 3
    /\ Cardinality(PresentRoles) = 3
    /\ call.guild.roles[call.member.roles[1]] < call.guild.roles[call.ret.id]
    /\ call.guild.roles[call.member.roles[2]] = call.guild.roles[call.ret.id]
    /\ call.member.roles[2] > call.ret.id
    /\ call.member.roles[3] = call.ret.id

\* recv_json has parsed call.json_bytes
JsonParsed == call.fn = "WsClient::recv_json"

\* the bytes are valid UTF-8
ValidUtf8(text) == \A i \in 1..Len(text) : text[i].sym < 128

\* C34: when the decompressed payload is not valid UTF-8, recv_json returns
\* GatewayError::DecompressUtf8, an error other than that of a JSON parse
\* failure.
C34_NonUtf8IsDecompressUtf8 ==
    (JsonParsed /\ ~ValidUtf8(call.json_bytes)) =>
        /\ call.ret = Err("DecompressUtf8")
        /\ call.ret # Err("Json")

\* the exposed secret of the parsed token was parsed again
ParsedAgain == call.fn = "expose_secret" /\ call.again # Pending

\* C35: for every string Token::from_str accepts, parsing the exposed secret
\* of the token succeeds and stores the same secret.
C35_ParseIdempotent ==
    ParsedAgain =>
        /\ call.again.ok
        /\ expose_secret(call.again.secret) = expose_secret(call.ret.secret)

\* one of the four searches has returned
Searched ==
    call.fn \in {"members_starting_with", "members_containing",
                 "members_username_containing", "members_nick_containing"}

\* Ordering::reverse
Reverse(ordering) ==
    CASE ordering = "Less" -> "Greater"
      [] ordering = "Greater" -> "Less"
      [] OTHER -> "Equal"

\* the index of the first occurrence by which the name matched, plus the
\* length of the name
MatchValue(name, substring, case_sensitive) ==
    Len(name) + (IF case_sensitive THEN str_find(name, substring)
                 ELSE str_find(to_lowercase(name), to_lowercase(substring)))

\* the comparator gives opposite answers for the two orders of every pair of
\* found names
ComparatorConsistent ==
    \A i \in DOMAIN call.ret, j \in DOMAIN call.ret :
        (i # j) =>
            closest_to_origin(call.substring, call.ret[i].name, call.ret[j].name)
                = Reverse(closest_to_origin(call.substring, call.ret[j].name,
                                            call.ret[i].name))

\* the result is in ascending order of index + length
OrderedByValue ==
    \A i \in DOMAIN call.ret, j \in DOMAIN call.ret :
        (i < j) =>
            MatchValue(call.ret[i].name, call.substring, call.case_sensitive)
                <= MatchValue(call.ret[j].name, call.substring, call.case_sensitive)

\* C36: for every pair of names the four searches can pass to
\* closest_to_origin, names matched case-insensitively included, the
\* comparison of (a, b) is the reverse of that of (b, a), and a sorted result
\* is in ascending order of (index of the first occurrence + name length).
C36_ComparatorTotal ==
    Searched => (ComparatorConsistent /\ (call.sorted => OrderedByValue))

\* send_chunk_guild was called with the arguments held in call
ChunkSent == call.fn = "send_chunk_guild" /\ last.op = "send_chunk_guild"

\* the object d of the text that was sent
ChunkOnWire == Field(last.sent.text, "d")

\* C37: send_chunk_guild sends limit 0 when no limit is given and nonce ""
\* when no nonce is given, the given limit and nonce unchanged otherwise, and
\* presences and guild_id as given.
C37_ChunkDefaults ==
    ChunkSent =>
        /\ Field(ChunkOnWire, "limit").n =
               (IF call.limit = <<>> THEN 0 ELSE call.limit[1])
        /\ Field(ChunkOnWire, "nonce").s =
               (IF call.nonce = <<>> THEN "" ELSE call.nonce[1])
        /\ Field(ChunkOnWire, "presences").b = call.presences
        /\ Field(ChunkOnWire, "guild_id").n = call.guild_id
        /\ last.sent.d.limit = Field(ChunkOnWire, "limit").n
        /\ last.sent.d.nonce = Field(ChunkOnWire, "nonce").s

\* C37, the case: no limit is given and 0 is sent; a nonce is given and is
\* sent as it is; presences are not asked for
C37_Witness ==
    /\ ChunkSent
    /\ call.limit = <<>>
    /\ call.nonce = <<"n">>
    /\ ~call.presences
    /\ call.guild_id = 11
    /\ Field(ChunkOnWire, "limit").n = 0
    /\ Field(ChunkOnWire, "nonce").s = "n"
    /\ ~Field(ChunkOnWire, "presences").b
====
